---- MODULE Spec2Model ----
(***************************************************************************)
(* music21 braille export: the dispatcher of music21/braille/translate.py  *)
(* (objectToBraille and the transcribers it routes to) together with the   *)
(* collaborators it calls: renotation (Stream.makeNotation), the Segmenter *)
(* (segment.findSegments) and the Segment transcriber.                     *)
(*                                                                         *)
(* A text is a sequence of glyph tokens; the token "NL" is the newline.    *)
(* Every transcriber is an operator that returns a record                  *)
(*   [ok, text, exc, log]                                                  *)
(* ok: the call returned; text: the returned text; exc: the exception that *)
(* ended it; log: the collaborator calls and transcriber entries it made,  *)
(* in order, up to the point where it returned or raised.                  *)
(***************************************************************************)
EXTENDS Integers, Sequences, FiniteSets, TLC

VARIABLES phase, call, result

vars == <<phase, call, result>>

(***************************************************************************)
(* Bounds of the model.                                                    *)
(***************************************************************************)
\* events in one Measure
MaxEvents == 2
\* Measures in one Part
MaxMeasures == 2
\* elements directly contained in a Score or a plain Stream
MaxElements == 2
\* Scores in one Opus
MaxScores == 2
\* the maxLineLength a caller passes explicitly, in glyphs
ShortLine == 3

\* work ids in the mapping of one Metadata handed to metadataToString
MaxWorkIds == 3
\* calls one caller makes with the same object and the same keywords
MaxRepeats == 3

\* names of one documented class or module
MaxNames == 3
\* entries of one _DOC_ORDER
MaxDocOrder == 2
\* bytes of one braille cell (U+2800..U+28FF) in UTF-8
BrailleCellBytes == 3
\* documented default of the maxLineLength keyword
DefaultMaxLineLength == 40

(***************************************************************************)
(* Texts.                                                                  *)
(***************************************************************************)
NL == "NL"

RECURSIVE Join(_, _)
\* sep.join(texts)
Join(texts, sep) ==
    IF texts = <<>> THEN <<>>
    ELSE IF Len(texts) = 1 THEN texts[1]
    ELSE texts[1] \o sep \o Join(Tail(texts), sep)

RECURSIVE Lines(_)
\* the lines of a text: the runs of tokens between newlines
Lines(text) ==
    IF \A i \in 1..Len(text) : text[i] # NL THEN <<text>>
    ELSE LET k == CHOOSE i \in 1..Len(text) :
                      text[i] = NL /\ \A j \in 1..(i-1) : text[j] # NL
         IN <<SubSeq(text, 1, k-1)>> \o Lines(SubSeq(text, k+1, Len(text)))

OctaveGlyph(octave) == IF octave = 3 THEN "oct3" ELSE "oct4"
OctaveGlyphs == {"oct3", "oct4"}

Ok(text, log) == [ok |-> TRUE, text |-> text, exc |-> "none", log |-> log]
\* mutant: every failure is replaced by the dispatcher's own exception
Raise_Wrapped(exc, log) ==
    [ok |-> FALSE, text |-> <<>>, exc |-> "BrailleTranslateException", log |-> log]
Raise(exc, log) == [ok |-> FALSE, text |-> <<>>, exc |-> exc, log |-> log]

\* keywords.get(key, default)
Get(kw, key, default) == IF key \in DOMAIN kw THEN kw[key] ELSE default
\* keywords[key] = value
Set(kw, key, value) == (key :> value) @@ kw

(***************************************************************************)
(* The music21 objects a caller can hand over.                             *)
(***************************************************************************)
Octaves == {3, 4}
Notes == [cls : {"Note"}, octave : Octaves]
Dynamics == [cls : {"Dynamic"}, letters : 1..3]
\* a chord with zero notes: malformed, it cannot be encoded
EmptyChord == [cls |-> "Chord", size |-> 0]

SeqsUpTo(S, n) == UNION {[1..k -> S] : k \in 0..n}

MeasureOf(events, fault) ==
    [cls |-> "Measure", events |-> events, copy |-> FALSE, fault |-> fault]

PartOf(cls, measures, organized, fault) ==
    [cls |-> cls, measures |-> measures, organized |-> organized,
     copy |-> FALSE, fault |-> fault]

\* class hierarchy of music21.stream, as isinstance sees it
IsStream(obj) ==
    obj.cls \in {"Stream", "Part", "PartStaff", "TinyNotationStream",
                 "Measure", "Score", "Opus"}
IsPart(obj) == obj.cls \in {"Part", "PartStaff"}
IsMeasure(obj) == obj.cls = "Measure"
IsScore(obj) == obj.cls = "Score"
IsOpus(obj) == obj.cls = "Opus"
IsTinyNotationStream(obj) == obj.cls = "TinyNotationStream"

\* the elements a Stream directly contains
Elements(obj) ==
    IF obj.cls \in {"Score", "Opus", "Stream"} THEN obj.elements
    ELSE IF obj.cls \in {"Part", "PartStaff", "TinyNotationStream"} THEN obj.measures
    ELSE IF obj.cls = "Measure" THEN obj.events
    ELSE <<>>

\* Stream.getElementsByClass, one operator per class asked for
PartStaffsOf(obj) == SelectSeq(Elements(obj), LAMBDA e : e.cls = "PartStaff")
PartsOf(obj) == SelectSeq(Elements(obj), IsPart)
ScoresOf(obj) == SelectSeq(Elements(obj), IsScore)
MetadatasOf(obj) == SelectSeq(Elements(obj), LAMBDA e : e.cls = "Metadata")

(***************************************************************************)
(* Renotation: Stream.makeNotation returns a renotated copy, organized     *)
(* into measures, and leaves the object it is called on alone.             *)
(***************************************************************************)
MakeNotation(obj) ==
    IF obj.fault = "renotate" THEN [ok |-> FALSE, value |-> obj, exc |-> "StreamException"]
    ELSE IF IsMeasure(obj)
         THEN [ok |-> TRUE, value |-> [obj EXCEPT !.copy = TRUE], exc |-> "none"]
         ELSE [ok |-> TRUE,
               value |-> [obj EXCEPT !.copy = TRUE, !.organized = TRUE],
               exc |-> "none"]

\* the log entry of a makeNotation call
Renotated(obj) == [op |-> "makeNotation", on |-> obj]

(***************************************************************************)
(* Segment keywords in force: the caller's value, else the default.        *)
(***************************************************************************)
ShowHeading(kw) == Get(kw, "showHeading", TRUE)
ShowFirstMeasureNumber(kw) == Get(kw, "showFirstMeasureNumber", TRUE)
MaxLineLength(kw) == Get(kw, "maxLineLength", DefaultMaxLineLength)
SegmentBreaks(kw) == Get(kw, "segmentBreaks", <<>>)
\* the doctests of objectToBraille show octave marks when the keyword is omitted
SuppressOctaveMarks(kw) == Get(kw, "suppressOctaveMarks", FALSE)

(***************************************************************************)
(* Symbol Encoder: the glyphs of the events of one measure, given the      *)
(* octave of the last pitch emitted (0: none yet).                         *)
(***************************************************************************)
EncodeNote(note, ref, suppress) ==
    (IF ~suppress /\ note.octave # ref THEN <<OctaveGlyph(note.octave)>> ELSE <<>>)
        \o <<"note">>

\* one forte glyph per letter of the dynamic's name, after the introducer
EncodeDynamic(dyn) == <<"dyn">> \o [i \in 1..dyn.letters |-> "f"]

RECURSIVE EncodeEvents(_, _, _)
EncodeEvents(events, ref, suppress) ==
    IF events = <<>> THEN <<>>
    ELSE LET e == Head(events)
         IN IF e.cls = "Note"
            THEN EncodeNote(e, ref, suppress)
                     \o EncodeEvents(Tail(events), e.octave, suppress)
            ELSE IF e.cls = "Dynamic"
            THEN EncodeDynamic(e) \o EncodeEvents(Tail(events), ref, suppress)
            ELSE EncodeEvents(Tail(events), ref, suppress)

RECURSIVE LastOctave(_, _)
\* the octave reference after the events
LastOctave(events, ref) ==
    IF events = <<>> THEN ref
    ELSE LastOctave(Tail(events),
                    IF Head(events).cls = "Note" THEN Head(events).octave ELSE ref)

RECURSIVE EncodeMeasures(_, _, _)
\* the measures of one Segment, a blank cell between two measures
EncodeMeasures(measures, ref, suppress) ==
    IF measures = <<>> THEN <<>>
    ELSE EncodeEvents(Head(measures).events, ref, suppress)
         \o (IF Len(measures) > 1 THEN <<"sp">> ELSE <<>>)
         \o EncodeMeasures(Tail(measures),
                           LastOctave(Head(measures).events, ref), suppress)

(***************************************************************************)
(* Segment Transcriber.                                                    *)
(***************************************************************************)
\* the line of music of a Segment: the measure number, then the measures
MusicLine(seg) ==
    (IF seg.showFirstMeasureNumber THEN <<"num", "sp">> ELSE <<>>)
        \o (IF seg.hand = "none" THEN <<>> ELSE <<seg.hand>>)
        \o EncodeMeasures(seg.measures, 0, seg.suppressOctaveMarks)

Malformed(seg) ==
    \E i \in 1..Len(seg.measures) :
        \E j \in 1..Len(seg.measures[i].events) :
            seg.measures[i].events[j].cls = "Chord"
            /\ seg.measures[i].events[j].size = 0

\* BrailleSegment.transcribe()
Transcribe(seg) ==
    IF Malformed(seg) THEN [ok |-> FALSE, text |-> <<>>, exc |-> "EncodingError"]
    ELSE [ok |-> TRUE,
          text |-> (IF seg.showHeading THEN <<"head", NL>> ELSE <<>>) \o MusicLine(seg),
          exc |-> "none"]

\* the braille-english name of a glyph
English(glyph) ==
    CASE glyph = "oct3" -> "Octave 3"
      [] glyph = "oct4" -> "Octave 4"
      [] glyph = "note" -> "Note"
      [] glyph = "dyn" -> "Word"
      [] glyph = "f" -> "Text f"
      [] glyph = "num" -> "Measure Number"
      [] glyph = "sp" -> "Space"
      [] glyph = "head" -> "Heading"
      [] glyph = "rh" -> "Right Hand"
      [] glyph = "lh" -> "Left Hand"
      [] OTHER -> glyph

\* str(brailleSegment)
Str(seg) ==
    LET t == (IF seg.showHeading THEN <<"head", NL>> ELSE <<>>) \o MusicLine(seg)
    IN [i \in 1..Len(t) |-> English(t[i])]

(***************************************************************************)
(* Segmenter.                                                              *)
(***************************************************************************)
NewSegment(measures, start, first, kw) ==
    [measures |-> measures,
     start |-> start,
     showHeading |-> ShowHeading(kw) /\ first,
     showFirstMeasureNumber |-> ShowFirstMeasureNumber(kw),
     suppressOctaveMarks |-> SuppressOctaveMarks(kw),
     hand |-> Get(kw, "showHand", "none")]

IsBreak(i, kw) == \E k \in 1..Len(SegmentBreaks(kw)) : SegmentBreaks(kw)[k] = i

\* mutant: the line budget is never checked
Overflows_Never(seg, measure, kw) == FALSE

\* appending the measure to the Segment would overflow the line
Overflows(seg, measure, kw) ==
    Len(MusicLine([seg EXCEPT !.measures = Append(@, measure)])) > MaxLineLength(kw)

RECURSIVE Walk(_, _, _, _, _)
\* measures i.. of the Part, cur the Segment being filled, done the closed ones
Walk(measures, i, cur, done, kw) ==
    IF i > Len(measures) THEN Append(done, cur)
    ELSE IF IsBreak(i, kw) \/ Overflows(cur, measures[i], kw)
         THEN Walk(measures, i + 1, NewSegment(<<measures[i]>>, i, FALSE, kw),
                   Append(done, cur), kw)
         ELSE Walk(measures, i + 1,
                   [cur EXCEPT !.measures = Append(@, measures[i])], done, kw)

\* segment.findSegments(part, **keywords)
FindSegments(part, kw) ==
    IF ~part.organized
    THEN [ok |-> FALSE, segments |-> <<>>, exc |-> "PreconditionError"]
    ELSE [ok |-> TRUE,
          segments |-> IF part.measures = <<>> THEN <<>>
                       ELSE Walk(part.measures, 2,
                                 NewSegment(<<part.measures[1]>>, 1, TRUE, kw),
                                 <<>>, kw),
          exc |-> "none"]

\* the log entries of the collaborator calls
Segmented(part, kw) == [op |-> "findSegments", on |-> part, kw |-> kw]
Transcribed(seg) == [op |-> "transcribe", seg |-> seg]
Entered(fn, kw) == [op |-> "enter", fn |-> fn, kw |-> kw]

(***************************************************************************)
(* translate.py                                                            *)
(***************************************************************************)
\* mutant: inPlace defaults to True
TranslateArgs_InPlaceByDefault(kw) ==
    [inPlace |-> Get(kw, "inPlace", TRUE), debug |-> Get(kw, "debug", FALSE)]

\* mutant: the inPlace keyword is not read
TranslateArgs_InPlaceIgnored(kw) ==
    [inPlace |-> FALSE, debug |-> Get(kw, "debug", FALSE)]

\* _translateArgs(**keywords)
TranslateArgs(kw) ==
    [inPlace |-> Get(kw, "inPlace", FALSE), debug |-> Get(kw, "debug", FALSE)]

\* mutant: the renotated copy is dropped and the original transcribed
ToTranscribe_Original(inPlace, original, renotated) == original

\* what is transcribed: the object as is when inPlace, else its renotated copy
ToTranscribe(inPlace, original, renotated) == IF inPlace THEN original ELSE renotated

RECURSIVE TranscribeSegments_DebugIgnored(_, _, _, _)
\* mutant: the debug keyword is not looked at, the braille is always returned
TranscribeSegments_DebugIgnored(segments, debug, texts, log) ==
    IF segments = <<>> THEN Ok(Join(texts, <<NL>>), log)
    ELSE LET seg == Head(segments)
             t == Transcribe(seg)
         IN IF ~t.ok THEN Raise(t.exc, Append(log, Transcribed(seg)))
            ELSE TranscribeSegments_DebugIgnored(Tail(segments), debug,
                                                 Append(texts, t.text),
                                                 Append(log, Transcribed(seg)))

RECURSIVE TranscribeSegments_TrailingNewline(_, _, _, _)
\* mutant: every unit is followed by a newline, the last one too
TranscribeSegments_TrailingNewline(segments, debug, texts, log) ==
    IF segments = <<>> THEN Ok(Join(texts, <<NL>>) \o <<NL>>, log)
    ELSE LET seg == Head(segments)
             t == Transcribe(seg)
         IN IF ~t.ok THEN Raise(t.exc, Append(log, Transcribed(seg)))
            ELSE TranscribeSegments_TrailingNewline(Tail(segments), debug,
                     Append(texts, IF debug THEN Str(seg) ELSE t.text),
                     Append(log, Transcribed(seg)))

RECURSIVE TranscribeSegments(_, _, _, _)
\* the loop of partToBraille over allSegments
TranscribeSegments(segments, debug, texts, log) ==
    IF segments = <<>> THEN Ok(Join(texts, <<NL>>), log)
    ELSE LET seg == Head(segments)
             t == Transcribe(seg)
         IN IF ~t.ok THEN Raise(t.exc, Append(log, Transcribed(seg)))
            ELSE TranscribeSegments(Tail(segments), debug,
                                    Append(texts, IF debug THEN Str(seg) ELSE t.text),
                                    Append(log, Transcribed(seg)))

\* partToBraille(music21Part, **keywords)
PartToBraille(part, kw) ==
    LET args == TranslateArgs(kw)
        entry == <<Entered("partToBraille", kw)>>
        made == MakeNotation(part)
    IN IF ~args.inPlace /\ ~made.ok
       THEN Raise(made.exc, Append(entry, Renotated(part)))
       ELSE LET partToTranscribe == ToTranscribe(args.inPlace, part, made.value)
                log == IF args.inPlace THEN entry ELSE Append(entry, Renotated(part))
                found == FindSegments(partToTranscribe, kw)
            IN IF ~found.ok
               THEN Raise(found.exc, Append(log, Segmented(partToTranscribe, kw)))
               ELSE TranscribeSegments(found.segments, args.debug, <<>>,
                                       Append(log, Segmented(partToTranscribe, kw)))

\* mutant: measureToBraille leaves the keywords as the caller passed them
MeasureKeywords_Unchanged(kw) == kw

\* the defaults measureToBraille puts in the keywords the caller left out
MeasureKeywords(kw) ==
    LET kw1 == IF "showHeading" \notin DOMAIN kw
               THEN Set(kw, "showHeading", FALSE) ELSE kw
    IN IF "showFirstMeasureNumber" \notin DOMAIN kw1
       THEN Set(kw1, "showFirstMeasureNumber", FALSE) ELSE kw1

\* stream.Part() with the measure appended
WrapInPart(measure) == PartOf("Part", <<measure>>, TRUE, "none")

\* mutant: the Part wrapped around the Measure is transcribed with the caller's
\* inPlace, not with inPlace forced to True
MeasureToBraille_InPlaceAsPassed(measure, kw) ==
    LET args == TranslateArgs(kw)
        entry == <<Entered("measureToBraille", kw)>>
        made == MakeNotation(measure)
    IN IF ~args.inPlace /\ ~made.ok
       THEN Raise(made.exc, Append(entry, Renotated(measure)))
       ELSE LET measureToTranscribe == ToTranscribe(args.inPlace, measure, made.value)
                log == IF args.inPlace THEN entry ELSE Append(entry, Renotated(measure))
                r == PartToBraille(WrapInPart(measureToTranscribe), MeasureKeywords(kw))
            IN [r EXCEPT !.log = log \o @]

\* measureToBraille(music21Measure, **keywords)
MeasureToBraille(measure, kw) ==
    LET args == TranslateArgs(kw)
        entry == <<Entered("measureToBraille", kw)>>
        made == MakeNotation(measure)
    IN IF ~args.inPlace /\ ~made.ok
       THEN Raise(made.exc, Append(entry, Renotated(measure)))
       ELSE LET measureToTranscribe == ToTranscribe(args.inPlace, measure, made.value)
                log == IF args.inPlace THEN entry ELSE Append(entry, Renotated(measure))
                r == PartToBraille(WrapInPart(measureToTranscribe),
                                   Set(MeasureKeywords(kw), "inPlace", TRUE))
            IN [r EXCEPT !.log = log \o @]

\* mutant: the Segments of the lower staff come first in each pair
Zip_Swapped(a, b) ==
    [i \in 1..(IF Len(a) < Len(b) THEN Len(a) ELSE Len(b)) |-> <<b[i], a[i]>>]

\* zip(rhSegments, lhSegments)
Zip(a, b) ==
    [i \in 1..(IF Len(a) < Len(b) THEN Len(a) ELSE Len(b)) |-> <<a[i], b[i]>>]

\* segment.BrailleGrandSegment(rhSegment, lhSegment): bar over bar, upper first
GrandSegment(rh, lh) ==
    LET up == Transcribe([rh EXCEPT !.hand = "rh"])
        low == Transcribe([lh EXCEPT !.hand = "lh"])
    IN IF ~up.ok THEN [ok |-> FALSE, text |-> <<>>, exc |-> up.exc]
       ELSE IF ~low.ok THEN [ok |-> FALSE, text |-> <<>>, exc |-> low.exc]
       ELSE [ok |-> TRUE, text |-> up.text \o <<NL>> \o low.text, exc |-> "none"]

\* str(bg)
GrandStr(rh, lh) ==
    Str([rh EXCEPT !.hand = "rh"]) \o <<NL>> \o Str([lh EXCEPT !.hand = "lh"])

Paired(rh, lh) == [op |-> "BrailleGrandSegment", rh |-> rh, lh |-> lh]

RECURSIVE TranscribePairs(_, _, _, _)
\* the loop of keyboardPartsToBraille over the zipped Segments
TranscribePairs(pairs, debug, texts, log) ==
    IF pairs = <<>> THEN Ok(Join(texts, <<NL>>), log)
    ELSE LET rh == Head(pairs)[1]
             lh == Head(pairs)[2]
             bg == GrandSegment(rh, lh)
         IN IF ~bg.ok THEN Raise(bg.exc, Append(log, Paired(rh, lh)))
            ELSE TranscribePairs(Tail(pairs), debug,
                                 Append(texts, IF debug THEN GrandStr(rh, lh) ELSE bg.text),
                                 Append(log, Paired(rh, lh)))

\* mutant: the lower staff is segmented only after the pairs have been formed
KeyboardPartsToBraille_LowerLast(upper, lower, kw) ==
    LET args == TranslateArgs(kw)
        entry == <<Entered("keyboardPartsToBraille", kw)>>
        madeUp == MakeNotation(upper)
        madeLow == MakeNotation(lower)
        logUp == IF args.inPlace THEN entry ELSE Append(entry, Renotated(upper))
        logLow == IF args.inPlace THEN logUp ELSE Append(logUp, Renotated(lower))
    IN IF ~args.inPlace /\ ~madeUp.ok THEN Raise(madeUp.exc, logUp)
       ELSE IF ~args.inPlace /\ ~madeLow.ok THEN Raise(madeLow.exc, logLow)
       ELSE LET upperPartToTranscribe == ToTranscribe(args.inPlace, upper, madeUp.value)
                lowerPartToTranscribe == ToTranscribe(args.inPlace, lower, madeLow.value)
                rh == FindSegments(upperPartToTranscribe, kw)
                lh == FindSegments(lowerPartToTranscribe, kw)
                logRh == Append(logLow, Segmented(upperPartToTranscribe, kw))
            IN IF ~rh.ok THEN Raise(rh.exc, logRh)
               ELSE IF ~lh.ok
               THEN Raise(lh.exc, Append(logRh, Segmented(lowerPartToTranscribe, kw)))
               ELSE LET r == TranscribePairs(Zip(rh.segments, lh.segments),
                                             args.debug, <<>>, logRh)
                    IN [r EXCEPT !.log = Append(@, Segmented(lowerPartToTranscribe, kw))]

\* keyboardPartsToBraille(music21PartStaffUpper, music21PartStaffLower, **keywords)
KeyboardPartsToBraille(upper, lower, kw) ==
    LET args == TranslateArgs(kw)
        entry == <<Entered("keyboardPartsToBraille", kw)>>
        madeUp == MakeNotation(upper)
        madeLow == MakeNotation(lower)
        logUp == IF args.inPlace THEN entry ELSE Append(entry, Renotated(upper))
        logLow == IF args.inPlace THEN logUp ELSE Append(logUp, Renotated(lower))
    IN IF ~args.inPlace /\ ~madeUp.ok THEN Raise(madeUp.exc, logUp)
       ELSE IF ~args.inPlace /\ ~madeLow.ok THEN Raise(madeLow.exc, logLow)
       ELSE LET upperPartToTranscribe == ToTranscribe(args.inPlace, upper, madeUp.value)
                lowerPartToTranscribe == ToTranscribe(args.inPlace, lower, madeLow.value)
                rh == FindSegments(upperPartToTranscribe, kw)
                lh == FindSegments(lowerPartToTranscribe, kw)
                logRh == Append(logLow, Segmented(upperPartToTranscribe, kw))
                logLh == Append(logRh, Segmented(lowerPartToTranscribe, kw))
            IN IF ~rh.ok THEN Raise(rh.exc, logRh)
               ELSE IF ~lh.ok THEN Raise(lh.exc, logLh)
               ELSE TranscribePairs(Zip(rh.segments, lh.segments), args.debug,
                                    <<>>, logLh)

\* " ".join(re.findall(r"([A-Z]*[a-z]+)", key)).title(), for the work id keys
TitleCase(key) ==
    CASE key = "movementName" -> "Movement Name"
      [] key = "movementNumber" -> "Movement Number"
      [] key = "number" -> "Number"
      [] key = "title" -> "Title"

\* the place of a line among the sorted lines: lexicographic order of its text
LineRank(line) ==
    CASE line[1] = "Movement Name" -> 1
      [] line[1] = "Movement Number" -> 2
      [] line[1] = "Number" -> 3
      [] line[1] = "Title" -> 4

\* mutant: the lines are left in the iteration order of the mapping
Sorted_AsIterated(lines) == lines

RECURSIVE Sorted(_)
\* sorted(allBrailleLines)
Sorted(lines) ==
    IF lines = <<>> THEN <<>>
    ELSE LET k == CHOOSE i \in 1..Len(lines) :
                      \A j \in 1..Len(lines) :
                          LineRank(lines[i]) < LineRank(lines[j])
                          \/ (LineRank(lines[i]) = LineRank(lines[j]) /\ i <= j)
         IN <<lines[k]>>
            \o Sorted(SubSeq(lines, 1, k - 1) \o SubSeq(lines, k + 1, Len(lines)))

\* metadataToString(music21Metadata)
MetadataToString(md) ==
    LET kept == SelectSeq(md.workIds, LAMBDA w : w.value # "None")
        lines == [i \in 1..Len(kept) |-> <<TitleCase(kept[i].key), ":", kept[i].value>>]
    IN Join(Sorted(lines), <<NL>>)

RECURSIVE TranscribeParts_SkipFailed(_, _, _, _)
\* mutant: a Part that fails is skipped and the rest of the Score is returned
TranscribeParts_SkipFailed(parts, kw, texts, log) ==
    IF parts = <<>> THEN Ok(Join(texts, <<NL>>), log)
    ELSE LET r == PartToBraille(Head(parts), kw)
         IN TranscribeParts_SkipFailed(Tail(parts), kw,
                                       IF r.ok THEN Append(texts, r.text) ELSE texts,
                                       log \o r.log)

RECURSIVE TranscribeParts_HeadingOnce(_, _, _, _)
\* mutant: only the first Part of a Score gets a heading
TranscribeParts_HeadingOnce(parts, kw, texts, log) ==
    IF parts = <<>> THEN Ok(Join(texts, <<NL>>), log)
    ELSE LET r == PartToBraille(Head(parts),
                                IF Len(log) = 1 THEN kw
                                ELSE Set(kw, "showHeading", FALSE))
         IN IF ~r.ok THEN Raise(r.exc, log \o r.log)
            ELSE TranscribeParts_HeadingOnce(Tail(parts), kw, Append(texts, r.text),
                                             log \o r.log)

RECURSIVE TranscribeParts_InPlaceKept(_, _, _, _)
\* mutant: once a Part is transcribed, inPlace stays forced for the Parts after it
TranscribeParts_InPlaceKept(parts, kw, texts, log) ==
    IF parts = <<>> THEN Ok(Join(texts, <<NL>>), log)
    ELSE LET r == PartToBraille(Head(parts), kw)
         IN IF ~r.ok THEN Raise(r.exc, log \o r.log)
            ELSE TranscribeParts_InPlaceKept(Tail(parts), Set(kw, "inPlace", TRUE),
                                             Append(texts, r.text), log \o r.log)

RECURSIVE TranscribeParts(_, _, _, _)
\* the second loop of scoreToBraille
TranscribeParts(parts, kw, texts, log) ==
    IF parts = <<>> THEN Ok(Join(texts, <<NL>>), log)
    ELSE LET r == PartToBraille(Head(parts), kw)
         IN IF ~r.ok THEN Raise(r.exc, log \o r.log)
            ELSE TranscribeParts(Tail(parts), kw, Append(texts, r.text), log \o r.log)

\* mutant: the metadata loop is left out
ScoreToBraille_NoMetadata(score, kw) ==
    TranscribeParts(PartsOf(score), kw, <<>>, <<Entered("scoreToBraille", kw)>>)

\* scoreToBraille(music21Score, **keywords)
ScoreToBraille(score, kw) ==
    LET metadatas == MetadatasOf(score)
    IN TranscribeParts(PartsOf(score), kw,
                       [i \in 1..Len(metadatas) |-> MetadataToString(metadatas[i])],
                       <<Entered("scoreToBraille", kw)>>)

RECURSIVE TranscribeScores_SingleNewline(_, _, _, _)
\* mutant: the Scores are joined by one newline, with no blank line between them
TranscribeScores_SingleNewline(scores, kw, texts, log) ==
    IF scores = <<>> THEN Ok(Join(texts, <<NL>>), log)
    ELSE LET r == ScoreToBraille(Head(scores), kw)
         IN IF ~r.ok THEN Raise(r.exc, log \o r.log)
            ELSE TranscribeScores_SingleNewline(Tail(scores), kw,
                                                Append(texts, r.text), log \o r.log)

RECURSIVE TranscribeScores(_, _, _, _)
\* the loop of opusToBraille
TranscribeScores(scores, kw, texts, log) ==
    IF scores = <<>> THEN Ok(Join(texts, <<NL, NL>>), log)
    ELSE LET r == ScoreToBraille(Head(scores), kw)
         IN IF ~r.ok THEN Raise(r.exc, log \o r.log)
            ELSE TranscribeScores(Tail(scores), kw, Append(texts, r.text), log \o r.log)

\* opusToBraille(music21Opus, **keywords)
OpusToBraille(opus, kw) ==
    TranscribeScores(ScoresOf(opus), kw, <<>>, <<Entered("opusToBraille", kw)>>)

\* mutant: an unsupported Stream yields the empty text instead of raising
Unsupported_EmptyText(stream) == Ok(<<>>, <<>>)

\* raise BrailleTranslateException("Stream cannot be translated to Braille.")
Unsupported(stream) == Raise("BrailleTranslateException", <<>>)

\* mutant: the test for two PartStaff comes before the tests for Part and Measure
StreamToBraille_KeyboardFirst(stream, kw) ==
    IF Len(PartStaffsOf(stream)) = 2
    THEN KeyboardPartsToBraille(PartStaffsOf(stream)[1], PartStaffsOf(stream)[2], kw)
    ELSE IF IsPart(stream) \/ IsTinyNotationStream(stream) THEN PartToBraille(stream, kw)
    ELSE IF IsMeasure(stream) THEN MeasureToBraille(stream, kw)
    ELSE IF IsScore(stream) THEN ScoreToBraille(stream, kw)
    ELSE IF IsOpus(stream) THEN OpusToBraille(stream, kw)
    ELSE Unsupported(stream)

\* streamToBraille(music21Stream, **keywords)
StreamToBraille(stream, kw) ==
    IF IsPart(stream) \/ IsTinyNotationStream(stream) THEN PartToBraille(stream, kw)
    ELSE IF IsMeasure(stream) THEN MeasureToBraille(stream, kw)
    ELSE IF Len(PartStaffsOf(stream)) = 2
    THEN KeyboardPartsToBraille(PartStaffsOf(stream)[1], PartStaffsOf(stream)[2], kw)
    ELSE IF IsScore(stream) THEN ScoreToBraille(stream, kw)
    ELSE IF IsOpus(stream) THEN OpusToBraille(stream, kw)
    ELSE Unsupported(stream)

\* mutant: the object is appended to the new Measure twice
WrapInMeasure_Twice(obj) == MeasureOf(<<obj, obj>>, "none")

\* stream.Measure() with the object appended
WrapInMeasure(obj) == MeasureOf(<<obj>>, "none")

\* objectToBraille(music21Obj, **keywords)
ObjectToBraille(obj, kw) ==
    IF IsStream(obj) THEN StreamToBraille(obj, kw)
    ELSE MeasureToBraille(WrapInMeasure(obj), Set(kw, "inPlace", TRUE))

(***************************************************************************)
(* webapps/templates.py: the braille template.                             *)
(***************************************************************************)
BrailleCells ==
    {"oct3", "oct4", "note", "dyn", "f", "num", "sp", "head", "rh", "lh"}

\* unicode.encode('utf-8'): the bytes of each character, in order
Utf8(text) ==
    LET width(g) == IF g \in BrailleCells THEN BrailleCellBytes ELSE 1
        RECURSIVE enc(_)
        enc(t) == IF t = <<>> THEN <<>>
                  ELSE [k \in 1..width(Head(t)) |-> [of |-> Head(t), byte |-> k]]
                       \o enc(Tail(t))
    IN enc(text)

\* mutant: a failure of the transcription is caught and an empty page returned
BrailleTemplate_EmptyPageOnFailure(outputStream) ==
    LET r == ObjectToBraille(outputStream, <<>>)
        log == <<Entered("braille", <<>>)>> \o r.log
        page == <<"<html><body><pre>">> \o r.text \o <<"</pre></body></html>">>
    IN [ok |-> TRUE, text |-> <<>>, exc |-> "none", log |-> log,
        data |-> Utf8(page), contentType |-> "text/html; charset=utf-8"]

\* templates.braille(outputStream): the pair (data, contentType)
BrailleTemplate(outputStream) ==
    LET r == ObjectToBraille(outputStream, <<>>)
        log == <<Entered("braille", <<>>)>> \o r.log
        brailleOutput == <<"<html><body><pre>">> \o r.text \o <<"</pre></body></html>">>
    IN IF ~r.ok THEN Raise(r.exc, log)
       ELSE [ok |-> TRUE, text |-> <<>>, exc |-> "none", log |-> log,
             data |-> Utf8(brailleOutput), contentType |-> "text/html; charset=utf-8"]

(***************************************************************************)
(* What callers pass: objects and keywords, from bounded sets.             *)
(***************************************************************************)
Note3 == [cls |-> "Note", octave |-> 3]
Note4 == [cls |-> "Note", octave |-> 4]
M3 == MeasureOf(<<Note3>>, "none")
M4 == MeasureOf(<<Note4>>, "none")

\* single objects that are not Streams
Singles == Notes \cup Dynamics \cup {EmptyChord}

\* Measures handed over on their own; renotation of a flawed one fails
Measures ==
    {MeasureOf(e, f) : e \in SeqsUpTo(Notes \cup {EmptyChord}, MaxEvents) \ {<<>>},
                       f \in {"none", "renotate"}}

\* Parts with every content of notes, well organized
NoteMeasures == {MeasureOf(e, "none") : e \in SeqsUpTo(Notes, MaxEvents) \ {<<>>}}
NoteParts == {PartOf("Part", ms, TRUE, "none") : ms \in SeqsUpTo(NoteMeasures, MaxMeasures)}

\* Parts of every class with a few contents, and the flawed ones: not organized
\* into measures, failing renotation, holding a malformed chord
SoundParts(classes) ==
    {PartOf(c, ms, TRUE, "none") : c \in classes, ms \in {<<>>, <<M3>>, <<M4, M3>>}}
FlawedParts(classes) ==
    {PartOf(c, <<M3>>, FALSE, "none") : c \in classes}
    \cup {PartOf(c, <<M3>>, TRUE, "renotate") : c \in classes}
    \cup {PartOf(c, <<MeasureOf(<<EmptyChord>>, "none")>>, TRUE, "none") : c \in classes}
PlainParts == SoundParts({"Part", "PartStaff", "TinyNotationStream"})
              \cup FlawedParts({"Part", "PartStaff", "TinyNotationStream"})

MetadataOf(workIds) == [cls |-> "Metadata", workIds |-> workIds]
Metadatas ==
    {MetadataOf(<<[key |-> "title", value |-> "Sonata"]>>),
     MetadataOf(<<[key |-> "title", value |-> "Sonata"],
                  [key |-> "number", value |-> "None"],
                  [key |-> "movementName", value |-> "Allegro"]>>)}

\* the work id mappings handed to metadataToString: the keys in every iteration
\* order, each with a value or None
WorkIdKeys == {"title", "number", "movementName", "movementNumber"}
WorkIds == [key : WorkIdKeys, value : {"None", "Sonata"}]
MetadataCalls ==
    {MetadataOf(ids) : ids \in
        {w \in SeqsUpTo(WorkIds, MaxWorkIds) :
            \A i, j \in 1..Len(w) : w[i].key = w[j].key => i = j}}

ScoreElements ==
    SoundParts({"Part", "PartStaff"}) \cup FlawedParts({"Part"}) \cup Metadatas
Scores == {[cls |-> "Score", elements |-> e] : e \in SeqsUpTo(ScoreElements, MaxElements)}

StreamElements ==
    {PartOf(c, ms, TRUE, "none") : c \in {"Part", "PartStaff"}, ms \in {<<>>, <<M4, M3>>}}
    \cup FlawedParts({"PartStaff"}) \cup {Note3}
Streams == {[cls |-> "Stream", elements |-> e] : e \in SeqsUpTo(StreamElements, MaxElements)}

OpusElements ==
    {[cls |-> "Score", elements |-> e] :
        e \in {<<>>, <<PartOf("Part", <<M3>>, TRUE, "none")>>,
               <<MetadataOf(<<[key |-> "title", value |-> "Sonata"]>>),
                 PartOf("Part", <<M4, M3>>, TRUE, "none")>>,
               <<PartOf("Part", <<M3>>, TRUE, "none"),
                 PartOf("Part", <<M3>>, FALSE, "none")>>,
               <<PartOf("Part", <<M3>>, TRUE, "renotate")>>,
               <<PartOf("PartStaff", <<M4>>, TRUE, "none"),
                 PartOf("PartStaff", <<M3>>, TRUE, "none")>>}}
    \cup {PartOf("PartStaff", <<M3>>, TRUE, "none")}
Opuses == {[cls |-> "Opus", elements |-> e] : e \in SeqsUpTo(OpusElements, MaxScores)}

\* a keyword left out, or passed with one of the values
Opt(key, values) == {<<>>} \cup {key :> v : v \in values}

\* keywords the dispatcher reads or sets
DispatchKeywords ==
    {a @@ b @@ c @@ d :
        a \in Opt("inPlace", BOOLEAN), b \in Opt("debug", {TRUE}),
        c \in Opt("showHeading", BOOLEAN),
        d \in Opt("showFirstMeasureNumber", BOOLEAN)}

\* keywords the Segmenter and the Segment transcriber read
SegmentKeywords ==
    {a @@ b @@ c @@ d :
        a \in Opt("showFirstMeasureNumber", {FALSE}),
        b \in Opt("suppressOctaveMarks", BOOLEAN),
        c \in Opt("maxLineLength", {ShortLine}),
        d \in Opt("segmentBreaks", {<<2>>})}

\* keywords of a transcription in several Segments, with explicit Segment breaks
KeyboardKeywords ==
    {a @@ b @@ c :
        a \in Opt("inPlace", BOOLEAN), b \in Opt("debug", {TRUE}),
        c \in Opt("segmentBreaks", {<<2>>})}

\* the streams the web application hands to the braille template
TemplateCalls == PlainParts \cup Measures \cup Streams \cup Singles

\* a Part and a Measure that directly contain two PartStaff; such a Part is not
\* organized into measures and cannot be renotated
Staff3 == PartOf("PartStaff", <<M3>>, TRUE, "none")
Staff4 == PartOf("PartStaff", <<M4>>, TRUE, "none")
PairHolders ==
    {PartOf("Part", <<Staff3, Staff4>>, FALSE, "renotate"),
     MeasureOf(<<Staff3, Staff4>>, "none")}

\* what each function is called with: <<object, keywords>>
PartCalls ==
    (PlainParts \X DispatchKeywords) \cup (NoteParts \X SegmentKeywords)
    \cup (SoundParts({"Part"}) \X KeyboardKeywords)
MeasureCalls == Measures \X DispatchKeywords
ScoreCalls == Scores \X DispatchKeywords
OpusCalls == Opuses \X DispatchKeywords
StreamCalls ==
    PartCalls \cup MeasureCalls \cup ScoreCalls \cup OpusCalls
    \cup (Streams \X (DispatchKeywords \cup KeyboardKeywords))
    \cup (PairHolders \X DispatchKeywords)
ObjectCalls == StreamCalls \cup (Singles \X (DispatchKeywords \cup SegmentKeywords))
\* the staves of a keyboard pair
Staves ==
    SoundParts({"PartStaff"}) \cup FlawedParts({"PartStaff"})
    \cup {PartOf("PartStaff", <<M3, M4>>, TRUE, "none")}
KeyboardCalls ==
    {<<<<u, l>>, kw>> : u \in Staves, l \in Staves, kw \in KeyboardKeywords}

(***************************************************************************)
(* The caller: one top-level call at a time.                               *)
(***************************************************************************)
NoCall == [fn |-> "none", obj |-> <<>>, kw |-> <<>>]
NoResult == [ok |-> FALSE, text |-> <<>>, exc |-> "none", log |-> <<>>]

Init ==
    /\ phase = "idle"
    /\ call = NoCall
    /\ result = NoResult

\* translate.objectToBraille(obj, **kw)
CallObjectToBraille ==
    /\ phase = "idle"
    /\ \E c \in ObjectCalls :
        /\ call' = [fn |-> "objectToBraille", obj |-> c[1], kw |-> c[2]]
        /\ result' = ObjectToBraille(c[1], c[2])
    /\ phase' = "done"

\* translate.streamToBraille(stream, **kw)
CallStreamToBraille ==
    /\ phase = "idle"
    /\ \E c \in StreamCalls :
        /\ call' = [fn |-> "streamToBraille", obj |-> c[1], kw |-> c[2]]
        /\ result' = StreamToBraille(c[1], c[2])
    /\ phase' = "done"

\* translate.partToBraille(part, **kw)
CallPartToBraille ==
    /\ phase = "idle"
    /\ \E c \in PartCalls :
        /\ call' = [fn |-> "partToBraille", obj |-> c[1], kw |-> c[2]]
        /\ result' = PartToBraille(c[1], c[2])
    /\ phase' = "done"

\* translate.measureToBraille(measure, **kw)
CallMeasureToBraille ==
    /\ phase = "idle"
    /\ \E c \in MeasureCalls :
        /\ call' = [fn |-> "measureToBraille", obj |-> c[1], kw |-> c[2]]
        /\ result' = MeasureToBraille(c[1], c[2])
    /\ phase' = "done"

\* translate.keyboardPartsToBraille(upper, lower, **kw)
CallKeyboardPartsToBraille ==
    /\ phase = "idle"
    /\ \E c \in KeyboardCalls :
        /\ call' = [fn |-> "keyboardPartsToBraille", obj |-> c[1], kw |-> c[2]]
        /\ result' = KeyboardPartsToBraille(c[1][1], c[1][2], c[2])
    /\ phase' = "done"

\* translate.scoreToBraille(score, **kw)
CallScoreToBraille ==
    /\ phase = "idle"
    /\ \E c \in ScoreCalls :
        /\ call' = [fn |-> "scoreToBraille", obj |-> c[1], kw |-> c[2]]
        /\ result' = ScoreToBraille(c[1], c[2])
    /\ phase' = "done"

\* translate.opusToBraille(opus, **kw)
CallOpusToBraille ==
    /\ phase = "idle"
    /\ \E c \in OpusCalls :
        /\ call' = [fn |-> "opusToBraille", obj |-> c[1], kw |-> c[2]]
        /\ result' = OpusToBraille(c[1], c[2])
    /\ phase' = "done"

\* translate.metadataToString(metadata)
CallMetadataToString ==
    /\ phase = "idle"
    /\ \E md \in MetadataCalls :
        /\ call' = [fn |-> "metadataToString", obj |-> md, kw |-> <<>>]
        /\ result' = Ok(MetadataToString(md), <<>>)
    /\ phase' = "done"

\* templates.braille(outputStream)
CallBrailleTemplate ==
    /\ phase = "idle"
    /\ \E stream \in TemplateCalls :
        /\ call' = [fn |-> "braille", obj |-> stream, kw |-> <<>>]
        /\ result' = BrailleTemplate(stream)
    /\ phase' = "done"

\* the caller takes the text or the exception
Return ==
    /\ phase = "done"
    /\ phase' = "idle"
    /\ call' = NoCall
    /\ result' = NoResult

Next ==
    \/ CallObjectToBraille
    \/ CallStreamToBraille
    \/ CallPartToBraille
    \/ CallMeasureToBraille
    \/ CallKeyboardPartsToBraille
    \/ CallScoreToBraille
    \/ CallOpusToBraille
    \/ CallMetadataToString
    \/ CallBrailleTemplate
    \/ Return

Spec == Init /\ [][Next]_vars

(***************************************************************************)
(* A caller that keeps one object and one keywords dict and makes several  *)
(* calls with them: f(obj, **kw).  Here result is the sequence of what the *)
(* calls made so far returned, each with the function that was called.     *)
(***************************************************************************)
\* the keywords dict of the callee when it returns: objectToBraille and
\* measureToBraille assign to keywords
CalleeKeywords(fn, obj, kw) ==
    IF fn = "measureToBraille" \/ (fn = "objectToBraille" /\ IsMeasure(obj))
    THEN Set(MeasureKeywords(kw), "inPlace", TRUE)
    ELSE IF fn = "objectToBraille" /\ ~IsStream(obj)
    THEN Set(MeasureKeywords(Set(kw, "inPlace", TRUE)), "inPlace", TRUE)
    ELSE kw

\* mutant: the callee works on the caller's dict itself
CallersKeywords_Shared(kw, callee) == callee

\* the caller's dict after f(obj, **kw): ** hands the callee a dict of its own
CallersKeywords(kw, callee) == kw

Invoke(fn, obj, kw) ==
    CASE fn = "partToBraille" -> PartToBraille(obj, kw)
      [] fn = "measureToBraille" -> MeasureToBraille(obj, kw)
      [] fn = "objectToBraille" -> ObjectToBraille(obj, kw)

\* the functions a caller can hand the object to
FunctionsFor(obj) ==
    IF IsPart(obj) \/ IsTinyNotationStream(obj) THEN {"partToBraille", "objectToBraille"}
    ELSE IF IsMeasure(obj) THEN {"measureToBraille", "objectToBraille"}
    ELSE {"objectToBraille"}

SessionCalls ==
    (PlainParts \X DispatchKeywords) \cup MeasureCalls
    \cup (Singles \X DispatchKeywords)
    \cup ScoreCalls \cup OpusCalls

SessionInit ==
    /\ phase = "idle"
    /\ call = NoCall
    /\ result = <<>>

\* the caller builds the object and the keywords it will call with
Hold ==
    /\ phase = "idle"
    /\ \E c \in SessionCalls : call' = [fn |-> "none", obj |-> c[1], kw |-> c[2]]
    /\ result' = <<>>
    /\ phase' = "held"

\* one more call f(obj, **kw) with what the caller holds
CallHeld ==
    /\ phase = "held"
    /\ Len(result) < MaxRepeats
    /\ \E fn \in FunctionsFor(call.obj) :
        /\ result' = Append(result, [fn |-> fn, kw |-> call.kw,
                                     out |-> Invoke(fn, call.obj, call.kw)])
        /\ call' = [call EXCEPT !.fn = fn,
                                !.kw = CallersKeywords(call.kw,
                                           CalleeKeywords(fn, call.obj, call.kw))]
    /\ phase' = "held"

\* the caller drops the object and the keywords
Release ==
    /\ phase = "held"
    /\ phase' = "idle"
    /\ call' = NoCall
    /\ result' = <<>>

SessionNext ==
    \/ Hold
    \/ CallHeld
    \/ Release

SessionSpec == SessionInit /\ [][SessionNext]_vars

(***************************************************************************)
(* buildDoc/build.py: PartitioinedModule, PartitionedClass, Documentation.  *)
(* In BuildSpec, call is the constructor or method called with its inputs  *)
(* and result what it left: the sorted lists, or the steps main performed. *)
(***************************************************************************)
\* name in list
Has(list, name) == \E i \in 1..Len(list) : list[i] = name
\* list.index(name), for a name the list has
IndexOf(list, name) == CHOOSE i \in 1..Len(list) :
                           list[i] = name /\ \A j \in 1..(i - 1) : list[j] # name
\* list.pop(i): the list without its i-th entry
Popped(list, i) == SubSeq(list, 1, i - 1) \o SubSeq(list, i + 1, Len(list))

\* mutant: the entry is looked up at the index the name has in namesSupply
Pick_AtSupplyIndex(src, supply, name) == src.data[IndexOf(supply, name)]

\* i = self.names.index(name); self._data[i]
Pick(src, supply, name) == src.data[IndexOf(src.names, name)]

\* one name moved from namesSupply to the end of the three new lists
Moved(acc, src, name, pop) ==
    [supply |-> IF pop THEN Popped(acc.supply, IndexOf(acc.supply, name))
                ELSE acc.supply,
     names |-> Append(acc.names, src.names[IndexOf(src.names, name)]),
     namesMroIndex |-> Append(acc.namesMroIndex,
                              src.namesMroIndex[IndexOf(src.names, name)]),
     data |-> Append(acc.data, Pick(src, acc.supply, name))]

RECURSIVE Others(_, _, _)
\* for name in namesSupply: the names left, in the order they have there
Others(acc, src, left) ==
    IF left = <<>> THEN acc
    ELSE Others(Moved(acc, src, Head(left), FALSE), src, Tail(left))

Sorted_(acc) ==
    [ok |-> TRUE, exc |-> "none", names |-> acc.names,
     namesMroIndex |-> acc.namesMroIndex, data |-> acc.data]
SortFailed(exc) ==
    [ok |-> FALSE, exc |-> exc, names |-> <<>>, namesMroIndex |-> <<>>, data |-> <<>>]

RECURSIVE ModuleOrdered(_, _, _)
\* PartitioinedModule._sort: the loop over namesOrdered, then the others
ModuleOrdered(acc, src, ordered) ==
    IF ordered = <<>> THEN Sorted_(Others(acc, src, acc.supply))
    ELSE IF ~Has(acc.supply, Head(ordered)) THEN SortFailed("Exception")
    ELSE ModuleOrdered(Moved(acc, src, Head(ordered), TRUE), src, Tail(ordered))

\* name in forceName, forceName being the string '__init__' the first loop
\* left behind: true of every name that is a substring of '__init__'
InForceName(name) == name \in {"__init__", "init"}

RECURSIVE ClassOrdered(_, _, _)
\* PartitionedClass._sort: the loop over namesOrdered, then the others
ClassOrdered(acc, src, ordered) ==
    IF ordered = <<>> THEN Sorted_(Others(acc, src, acc.supply))
    ELSE IF InForceName(Head(ordered)) THEN ClassOrdered(acc, src, Tail(ordered))
    ELSE IF ~Has(acc.supply, Head(ordered)) THEN SortFailed("ValueError")
    ELSE ClassOrdered(Moved(acc, src, Head(ordered), TRUE), src, Tail(ordered))

\* the lists before _sort: nothing sorted yet, every name in the supply
Unsorted(src) ==
    [supply |-> src.names, names |-> <<>>, namesMroIndex |-> <<>>, data |-> <<>>]

\* PartitioinedModule._sort()
ModuleSort(src) == ModuleOrdered(Unsorted(src), src, src.namesOrdered)

\* PartitionedClass._sort()
ClassSort(src) ==
    LET forced == IF Has(src.names, "__init__")
                  THEN Moved(Unsorted(src), src, "__init__", TRUE)
                  ELSE Unsorted(src)
    IN ClassOrdered(forced, src, src.namesOrdered)

\* the class that defines the name, as an index into the mro
MroIndexOf(name) == IF name = "__init__" THEN 1 ELSE 0

\* names, namesMroIndex and _data as __init__ fills them, before _sort; an
\* entry of _data remembers the place it was created at
Filled(names, namesOrdered) ==
    [names |-> names,
     namesOrdered |-> namesOrdered,
     namesMroIndex |-> [i \in 1..Len(names) |-> <<names[i], MroIndexOf(names[i])>>],
     data |-> [i \in 1..Len(names) |-> [name |-> names[i], origin |-> i]]]

\* the names of the _DOC_ORDER objects of a module; one without a name is skipped
NamesOfDocOrder(docOrder) == SelectSeq(docOrder, LAMBDA e : e # "unnamed")

\* PartitioinedModule(srcNameEval)
PartitioinedModule(names, docOrder) == ModuleSort(Filled(names, NamesOfDocOrder(docOrder)))

\* PartitionedClass(srcNameEval)
PartitionedClass(names, docOrder) == ClassSort(Filled(names, docOrder))

\* getElement(partName)
GetElement(sorted, partName) ==
    IF ~Has(sorted.names, partName) THEN [name |-> "raise", origin |-> 0]
    ELSE sorted.data[IndexOf(sorted.names, partName)]

FORMATS == {"html", "latex", "pdf"}

\* the directory attributes Documentation.updateDirs assigns
UpdateDirs ==
    {"dir", "parentDir", "dirBuild", "dirRst", "dirBuildHtml", "dirBuildDoctrees"}

\* self.<attribute>: its value, or AttributeError when it was never assigned
Attribute(attrs, name) ==
    IF name \in attrs THEN [ok |-> TRUE, value |-> name]
    ELSE [ok |-> FALSE, value |-> "AttributeError"]

\* writeModuleReference(): one rst file per module to build
WriteModuleReference(modules) == [i \in 1..modules |-> "rst:module"]
\* writeContents(): contents.rst
WriteContents == <<"rst:contents">>

\* Documentation.main(format), on an object updateDirs has run on
DocumentationMain(format, modules, platform) ==
    IF format \notin FORMATS
    THEN [ok |-> FALSE, exc |-> "Exception", steps |-> <<>>, dirOut |-> "undefined"]
    ELSE LET written == WriteModuleReference(modules) \o WriteContents
             dir == CASE format = "html" -> Attribute(UpdateDirs, "dirBuildHtml")
                      [] format = "latex" -> Attribute(UpdateDirs, "dirBuildLatex")
                      [] format = "pdf" -> Attribute(UpdateDirs, "dirBuildPdf")
         IN IF ~dir.ok
            THEN [ok |-> FALSE, exc |-> dir.value, steps |-> written,
                  dirOut |-> "undefined"]
            ELSE [ok |-> TRUE, exc |-> "none",
                  steps |-> written
                            \o (IF platform \in {"darwin", "nix", "win"}
                                THEN <<"sphinx">> ELSE <<>>)
                            \o (IF format = "html" THEN <<"webbrowser.open">> ELSE <<>>),
                  dirOut |-> dir.value]

\* what the documentation build is run on
ClassNames == {"__init__", "init", "parseData", "parseFile"}
ModuleNames == {"Accidental", "Pitch", "convertFqToPs", "convertPsToFq"}
\* lists of distinct names
NameLists(S) ==
    {l \in SeqsUpTo(S, MaxNames) : \A i, j \in 1..Len(l) : l[i] = l[j] => i = j}
DocOrders(S) == SeqsUpTo(S, MaxDocOrder)
Formats == FORMATS \cup {"epub", "text"}
Platforms == {"darwin", "nix", "win", "other"}

BuildInit ==
    /\ phase = "idle"
    /\ call = NoCall
    /\ result = NoResult

\* PartitionedClass(cls) for a class with the names and the _DOC_ORDER
ConstructPartitionedClass ==
    /\ phase = "idle"
    /\ \E names \in NameLists(ClassNames), docOrder \in DocOrders(ClassNames) :
        /\ call' = [fn |-> "PartitionedClass", names |-> names, docOrder |-> docOrder]
        /\ result' = PartitionedClass(names, docOrder)
    /\ phase' = "done"

\* PartitioinedModule(module) for a module with the names and the _DOC_ORDER
ConstructPartitioinedModule ==
    /\ phase = "idle"
    /\ \E names \in NameLists(ModuleNames),
          docOrder \in DocOrders(ModuleNames \cup {"unnamed"}) :
        /\ call' = [fn |-> "PartitioinedModule", names |-> names, docOrder |-> docOrder]
        /\ result' = PartitioinedModule(names, docOrder)
    /\ phase' = "done"

\* Documentation().main(format)
CallDocumentationMain ==
    /\ phase = "idle"
    /\ \E format \in Formats, modules \in 0..MaxNames, platform \in Platforms :
        /\ call' = [fn |-> "Documentation.main", format |-> format,
                    modules |-> modules, platform |-> platform]
        /\ result' = DocumentationMain(format, modules, platform)
    /\ phase' = "done"

BuildNext ==
    \/ ConstructPartitionedClass
    \/ ConstructPartitioinedModule
    \/ CallDocumentationMain
    \/ Return

BuildSpec == BuildInit /\ [][BuildNext]_vars

(***************************************************************************)
(* ipython21/ipyJSapp.py: NewNotebookApp.start.  In NotebookSpec, call is  *)
(* the configured app, phase the place start has reached, and result what  *)
(* start has done so far: the steps in order, the server info file, the    *)
(* running kernels, the browser thread, and how start ended.               *)
(***************************************************************************)
\* kernels started while the IO loop runs
MaxKernels == 2

\* file_to_run: not set, a path that exists, a path that does not
FilesToRun == {"", "exists", "missing"}

\* the app as configured before start is called; browserFound tells whether
\* webbrowser.get finds a browser or raises webbrowser.Error
NotebookApps ==
    [subapp : BOOLEAN, open_browser : BOOLEAN, file_to_run : FilesToRun,
     browserFound : BOOLEAN]

\* how IOLoop.instance().start() ends
LoopOutcomes == {"returns", "KeyboardInterrupt", "Exception"}

NotStarted ==
    [steps |-> <<>>, serverInfoFile |-> FALSE, kernels |-> 0, browser |-> "unset",
     uri |-> "unset", thread |-> "none", pending |-> "none", status |-> 0]

Did(step) == [result EXCEPT !.steps = Append(@, step)]

NotebookInit ==
    /\ phase = "configured"
    /\ call \in NotebookApps
    /\ result = NotStarted

\* if self.subapp is not None: return self.subapp.start(); else the info lines
Start ==
    /\ phase = "configured"
    /\ IF call.subapp
       THEN /\ result' = Did("subapp.start")
            /\ phase' = "returned"
       ELSE /\ result' = Did("log.info")
            /\ phase' = "started"
    /\ UNCHANGED call

\* self.write_server_info_file(), then the test of open_browser and file_to_run
WriteServerInfoFile ==
    /\ phase = "started"
    /\ result' = [Did("write_server_info_file") EXCEPT !.serverInfoFile = TRUE]
    /\ phase' = IF call.open_browser \/ call.file_to_run # ""
                THEN "browser" ELSE "loop"
    /\ UNCHANGED call

\* browser = webbrowser.get(...), None after webbrowser.Error
WebbrowserGet ==
    /\ phase = "browser"
    /\ result' = IF call.browserFound
                 THEN [Did("webbrowser.get") EXCEPT !.browser = "found"]
                 ELSE [Did("log.warn") EXCEPT !.browser = "None"]
    /\ phase' = "uri"
    /\ UNCHANGED call

\* if self.file_to_run: a missing file is logged and the app exits with status
\* 1, else uri is the notebook's; without file_to_run uri is uri_override
Uri ==
    /\ phase = "uri"
    /\ IF call.file_to_run = "missing"
       THEN /\ result' = [Did("exit") EXCEPT !.status = 1, !.pending = "SystemExit"]
            /\ phase' = "exited"
       ELSE /\ result' = [result EXCEPT !.uri = IF call.file_to_run = "exists"
                                                THEN "notebooks" ELSE "uri_override"]
            /\ phase' = "open"
    /\ UNCHANGED call

\* if browser: threading.Thread(target=b).start()
StartBrowserThread ==
    /\ phase = "open"
    /\ result' = IF result.browser = "found"
                 THEN [Did("Thread.start") EXCEPT !.thread = "started"]
                 ELSE result
    /\ phase' = "loop"
    /\ UNCHANGED call

\* b, in its own thread: browser.open(...)
BrowserOpen ==
    /\ phase \notin {"configured", "started", "browser", "uri", "open"}
    /\ result.thread = "started"
    /\ result' = [result EXCEPT !.thread = "opened"]
    /\ UNCHANGED <<phase, call>>

\* try: ioloop.IOLoop.instance().start()
IOLoopStart ==
    /\ phase = "loop"
    /\ result' = Did("ioloop.start")
    /\ phase' = "looping"
    /\ UNCHANGED call

\* the running server starts a kernel
KernelStarted ==
    /\ phase = "looping"
    /\ result.kernels < MaxKernels
    /\ result' = [result EXCEPT !.kernels = @ + 1]
    /\ UNCHANGED <<phase, call>>

\* mutant: the two cleanup steps sit in an else clause, not a finally clause
RunsFinally_UnlessRaised(outcome) == outcome # "Exception"

\* finally: the clause runs however the try block ends
RunsFinally(outcome) == TRUE

\* the loop ends: except KeyboardInterrupt: info("Interrupted..."); any other
\* exception stays pending over the finally clause
IOLoopEnds ==
    /\ phase = "looping"
    /\ \E outcome \in LoopOutcomes :
        /\ result' = CASE outcome = "KeyboardInterrupt" -> Did("Interrupted...")
                       [] outcome = "Exception" -> [result EXCEPT !.pending = "Exception"]
                       [] OTHER -> result
        /\ phase' = IF RunsFinally(outcome) THEN "finally" ELSE "raised"
    /\ UNCHANGED call

\* self.cleanup_kernels()
CleanupKernels ==
    /\ phase = "finally"
    /\ result' = [Did("cleanup_kernels") EXCEPT !.kernels = 0]
    /\ phase' = "cleaned"
    /\ UNCHANGED call

\* self.remove_server_info_file(); start then returns, or the pending
\* exception goes on to the caller
RemoveServerInfoFile ==
    /\ phase = "cleaned"
    /\ result' = [Did("remove_server_info_file") EXCEPT !.serverInfoFile = FALSE]
    /\ phase' = IF result.pending = "none" THEN "returned" ELSE "raised"
    /\ UNCHANGED call

NotebookNext ==
    \/ Start
    \/ WriteServerInfoFile
    \/ WebbrowserGet
    \/ Uri
    \/ StartBrowserThread
    \/ BrowserOpen
    \/ IOLoopStart
    \/ KernelStarted
    \/ IOLoopEnds
    \/ CleanupKernels
    \/ RemoveServerInfoFile

NotebookSpec == NotebookInit /\ [][NotebookNext]_vars

(***************************************************************************)
(* Properties.  A state with phase = "done" holds one finished top-level   *)
(* call: what was called with what, and what came back.                    *)
(***************************************************************************)
Done == phase = "done"
ViaDispatcher == call.fn \in {"objectToBraille", "streamToBraille"}
\* the call handed a Stream (or a single object) to a function that takes one
OneObject == call.fn # "keyboardPartsToBraille"

\* the log entries of one kind of collaborator call, in order
LogOf(op) == SelectSeq(result.log, LAMBDA e : e.op = op)
\* the transcriber entered first
FirstEntered == IF result.log = <<>> THEN "none" ELSE result.log[1].fn

\* C1: streamToBraille, given a Stream that is no Part, TinyNotationStream,
\* Measure, Score or Opus and does not directly contain exactly two PartStaff,
\* ends in BrailleTranslateException, returns no text and enters no transcriber.
C1_UnsupportedStreamRaises ==
    (Done /\ ViaDispatcher /\ call.obj.cls = "Stream"
          /\ Len(PartStaffsOf(call.obj)) # 2)
    => /\ ~result.ok
       /\ result.exc = "BrailleTranslateException"
       /\ result.text = <<>>
       /\ LogOf("enter") = <<>>

C1_Witness ==
    /\ Done /\ call.fn = "streamToBraille" /\ call.obj.cls = "Stream"
    /\ Len(PartStaffsOf(call.obj)) = 1 /\ Len(call.obj.elements) = 2
    /\ result.exc = "BrailleTranslateException"

\* the number of Segments each findSegments call of the run returned
SegmentCounts ==
    LET f == LogOf("findSegments")
    IN [i \in 1..Len(f) |-> Len(FindSegments(f[i].on, f[i].kw).segments)]

\* both staves of a keyboard pair were segmented, into sequences of unequal length
UnequalStaves ==
    /\ Done /\ FirstEntered = "keyboardPartsToBraille"
    /\ Len(SegmentCounts) = 2
    /\ \A i \in 1..2 : FindSegments(LogOf("findSegments")[i].on,
                                    LogOf("findSegments")[i].kw).ok
    /\ SegmentCounts[1] # SegmentCounts[2]

\* C2: in the keyboard-pair transcription, Segment sequences of unequal length
\* for the upper and the lower staff raise an AlignmentError; no text is returned.
C2_UnequalStavesRaise ==
    UnequalStaves => (~result.ok /\ result.exc = "AlignmentError")

\* one metadata summary per Metadata, then one transcription per Part
ScoreUnits(score, kw) ==
    [i \in 1..Len(MetadatasOf(score)) |-> MetadataToString(MetadatasOf(score)[i])]
    \o [i \in 1..Len(PartsOf(score)) |-> PartToBraille(PartsOf(score)[i], kw).text]

\* C3 as claimed: for every Score handed to the dispatcher the output is one
\* metadata summary per Metadata, then one transcription per Part, in the
\* Score's order, joined by newline.
C3_EveryScore ==
    (Done /\ ViaDispatcher /\ call.obj.cls = "Score" /\ result.ok)
    => result.text = Join(ScoreUnits(call.obj, call.kw), <<NL>>)

\* C3 amended: the same, for every Score that does not directly contain exactly
\* two PartStaff (such a Score is transcribed as a keyboard pair).
C3_ScoreButKeyboardPair ==
    (Done /\ ViaDispatcher /\ call.obj.cls = "Score" /\ result.ok
          /\ Len(PartStaffsOf(call.obj)) # 2)
    => result.text = Join(ScoreUnits(call.obj, call.kw), <<NL>>)

\* a Score whose Part precedes its Metadata: the summary still comes first
C3_Witness ==
    /\ Done /\ call.fn = "objectToBraille" /\ call.obj.cls = "Score" /\ result.ok
    /\ Len(call.obj.elements) = 2
    /\ IsPart(call.obj.elements[1]) /\ call.obj.elements[1].measures # <<>>
    /\ call.obj.elements[2].cls = "Metadata"
    /\ result.text[1] = "Title"

\* the caller left inPlace out or passed False
NotInPlace == ~Get(call.kw, "inPlace", FALSE)

\* what is segmented is a renotated copy: of the Part, or of the Measure the Part wraps
SegmentsCopy(e) ==
    \/ e.on.copy
    \/ /\ e.on.measures # <<>>
       /\ \A i \in 1..Len(e.on.measures) : e.on.measures[i].copy

\* the copy segmented at log[i] was requested from makeNotation before
CopyRequestedBefore(i) ==
    \E j \in 1..(i - 1) :
        /\ result.log[j].op = "makeNotation"
        /\ MakeNotation(result.log[j].on).ok
        /\ \/ result.log[i].on = MakeNotation(result.log[j].on).value
           \/ result.log[i].on = WrapInPart(MakeNotation(result.log[j].on).value)

RenotatedThenSegmented ==
    \A i \in 1..Len(result.log) :
        result.log[i].op = "findSegments"
        => SegmentsCopy(result.log[i]) /\ CopyRequestedBefore(i)

\* C4 as claimed: on every dispatcher route, with inPlace false or left out, a
\* renotated copy of each Measure/Part is requested before it is segmented and
\* the copy is what is transcribed.
C4_EveryRoute ==
    (Done /\ ViaDispatcher /\ NotInPlace) => RenotatedThenSegmented

\* C4 amended: that holds on the routes of a Stream (Measure, Part, keyboard
\* pair, Score, Opus); on the single-object route inPlace is forced to True and
\* the object is transcribed with no renotation at all.
C4_StreamRoutes ==
    (Done /\ ViaDispatcher /\ NotInPlace)
    => IF IsStream(call.obj) THEN RenotatedThenSegmented
       ELSE LogOf("makeNotation") = <<>>

C4_Witness ==
    /\ Done /\ call.fn = "objectToBraille" /\ call.obj.cls = "Score"
    /\ "inPlace" \notin DOMAIN call.kw /\ result.ok
    /\ Len(LogOf("makeNotation")) = 2 /\ Len(LogOf("findSegments")) = 2

\* the Parts a call hands over, as the Segmenter meets them when nothing is
\* renotated: the Part itself, or the Part wrapped around a Measure or an object
RECURSIVE PartsHandedOver(_)
PartsHandedOver(obj) ==
    IF IsPart(obj) \/ IsTinyNotationStream(obj) THEN {obj}
    ELSE IF IsMeasure(obj) THEN {WrapInPart(obj)}
    ELSE IF ~IsStream(obj) THEN {WrapInPart(WrapInMeasure(obj))}
    ELSE UNION {PartsHandedOver(obj.elements[i]) : i \in 1..Len(obj.elements)}

CallerParts ==
    IF OneObject THEN PartsHandedOver(call.obj)
    ELSE {call.obj[1], call.obj[2]}

\* C5: with inPlace=True no makeNotation is requested during the call, and what
\* the Segmenter is handed are the caller's objects as they are.
C5_InPlaceNoRenotation ==
    (Done /\ Get(call.kw, "inPlace", FALSE))
    => /\ LogOf("makeNotation") = <<>>
       /\ \A i \in 1..Len(LogOf("findSegments")) :
              /\ LogOf("findSegments")[i].on \in CallerParts
              /\ ~SegmentsCopy(LogOf("findSegments")[i])

C5_Witness ==
    /\ Done /\ call.fn = "objectToBraille" /\ call.obj.cls = "Measure"
    /\ Get(call.kw, "inPlace", FALSE) /\ result.ok
    /\ Len(LogOf("findSegments")) = 1 /\ Len(LogOf("transcribe")) = 1

\* the caller left both showHeading and showFirstMeasureNumber out
HeadingKeywordsOmitted ==
    /\ "showHeading" \notin DOMAIN call.kw
    /\ "showFirstMeasureNumber" \notin DOMAIN call.kw

\* every segmentation and every Segment of the run has the two options at b
RunsWithHeadingOptions(b) ==
    /\ \A i \in 1..Len(LogOf("findSegments")) :
           /\ ShowHeading(LogOf("findSegments")[i].kw) = b
           /\ ShowFirstMeasureNumber(LogOf("findSegments")[i].kw) = b
    /\ \A i \in 1..Len(LogOf("transcribe")) :
           /\ LogOf("transcribe")[i].seg.showFirstMeasureNumber = b
           /\ (LogOf("transcribe")[i].seg.start = 1
               => LogOf("transcribe")[i].seg.showHeading = b)

\* C6 as claimed: with showHeading and showFirstMeasureNumber left out, the
\* transcription runs with both true, whatever kind of object is transcribed.
C6_EveryKind ==
    (Done /\ ViaDispatcher /\ HeadingKeywordsOmitted) => RunsWithHeadingOptions(TRUE)

\* C6 amended: with both left out, a Part, Score, Opus or keyboard pair is
\* transcribed with both true; a Measure or a single object with both false.
C6_ByKind ==
    (Done /\ ViaDispatcher /\ HeadingKeywordsOmitted)
    => RunsWithHeadingOptions(IsStream(call.obj) /\ ~IsMeasure(call.obj))

C6_Witness ==
    /\ Done /\ call.fn = "objectToBraille" /\ call.obj.cls = "Measure"
    /\ HeadingKeywordsOmitted /\ result.ok
    /\ Len(LogOf("transcribe")) = 1
    /\ \A i \in 1..Len(result.text) : result.text[i] \notin {"head", "num"}

\* C7: with suppressOctaveMarks true, or left out (its documented default is
\* True), no octave glyph appears anywhere in the output.
C7_NoOctaveGlyph ==
    (Done /\ result.ok /\ Get(call.kw, "suppressOctaveMarks", TRUE))
    => \A i \in 1..Len(result.text) : result.text[i] \notin OctaveGlyphs

\* a Part handed to partToBraille, directly or by the dispatcher
PartRoute ==
    /\ Done /\ call.fn \in {"partToBraille", "objectToBraille", "streamToBraille"}
    /\ (IsPart(call.obj) \/ IsTinyNotationStream(call.obj))

RECURSIVE MeasuresOf(_)
\* the measures of the Segments, concatenated in order
MeasuresOf(segments) ==
    IF segments = <<>> THEN <<>>
    ELSE Head(segments).measures \o MeasuresOf(Tail(segments))

\* each Segment starts at the measure after the last one of the Segment before
Contiguous(segments) ==
    \A k \in 1..Len(segments) :
        /\ segments[k].measures # <<>>
        /\ segments[k].start = 1 + Len(MeasuresOf(SubSeq(segments, 1, k - 1)))

LineBudget == Get(call.kw, "maxLineLength", DefaultMaxLineLength)
\* the lines of the output longer than maxLineLength
LongLines ==
    {i \in 1..Len(Lines(result.text)) : Len(Lines(result.text)[i]) > LineBudget}

\* the measure, encoded on its own, is longer than maxLineLength
ExceedsAlone(measure) ==
    Len(EncodeEvents(measure.events, 0, SuppressOctaveMarks(call.kw))) > LineBudget

Failing(units, Transcriber(_, _)) ==
    {i \in 1..Len(units) : ~Transcriber(units[i], call.kw).ok}
Least(S) == CHOOSE i \in S : \A j \in S : i <= j
\* how many times the transcriber was entered in the run
Entries(fn) == Len(SelectSeq(LogOf("enter"), LAMBDA e : e.fn = fn))

\* C10: a failure ends the top-level call: when a Part of a Score, or a Score of
\* an Opus, fails, the caller gets that failure and no text, not the text of the
\* Parts or Scores already transcribed, and nothing is tried again or after it.
C10_FailureIsTerminal ==
    /\ (Done /\ OneObject /\ FirstEntered = "scoreToBraille"
             /\ Failing(PartsOf(call.obj), PartToBraille) # {})
       => LET k == Least(Failing(PartsOf(call.obj), PartToBraille))
          IN /\ ~result.ok /\ result.text = <<>>
             /\ result.exc = PartToBraille(PartsOf(call.obj)[k], call.kw).exc
             /\ Entries("partToBraille") = k
    /\ (Done /\ OneObject /\ FirstEntered = "opusToBraille"
             /\ Failing(ScoresOf(call.obj), ScoreToBraille) # {})
       => LET k == Least(Failing(ScoresOf(call.obj), ScoreToBraille))
          IN /\ ~result.ok /\ result.text = <<>>
             /\ result.exc = ScoreToBraille(ScoresOf(call.obj)[k], call.kw).exc
             /\ Entries("scoreToBraille") = k

\* the first Part of the Score was transcribed, the second one failed
C10_Witness ==
    /\ Done /\ call.fn = "objectToBraille" /\ FirstEntered = "scoreToBraille"
    /\ Len(PartsOf(call.obj)) = 2
    /\ PartToBraille(PartsOf(call.obj)[1], call.kw).ok
    /\ PartToBraille(PartsOf(call.obj)[1], call.kw).text # <<>>
    /\ ~PartToBraille(PartsOf(call.obj)[2], call.kw).ok
    /\ LogOf("transcribe") # <<>>
    /\ ~result.ok

\* the exception a logged collaborator call ended in ("none": it returned)
CollaboratorFailure(e) ==
    CASE e.op = "makeNotation" -> MakeNotation(e.on).exc
      [] e.op = "findSegments" -> FindSegments(e.on, e.kw).exc
      [] e.op = "transcribe" -> Transcribe(e.seg).exc
      [] e.op = "BrailleGrandSegment" -> GrandSegment(e.rh, e.lh).exc
      [] OTHER -> "none"

\* C11: a failure raised by a collaborator (makeNotation, findSegments, a
\* Segment's transcribe) reaches the caller as the same failure: the call it
\* came from is the last thing the run did, and the caller gets that exception,
\* not caught, replaced or wrapped.
C11_CollaboratorFailureUnchanged ==
    Done => \A i \in 1..Len(result.log) :
                CollaboratorFailure(result.log[i]) # "none"
                => /\ i = Len(result.log)
                   /\ ~result.ok
                   /\ result.exc = CollaboratorFailure(result.log[i])

\* renotation of a Measure fails inside measureToBraille, reached by the dispatcher
C11_Witness ==
    /\ Done /\ call.fn = "objectToBraille" /\ IsMeasure(call.obj)
    /\ result.log # <<>>
    /\ result.log[Len(result.log)].op = "makeNotation"
    /\ ~result.ok /\ result.exc = "StreamException"

ScoreOfParts(parts) == [cls |-> "Score", elements |-> parts]
Reversed(seq) == [i \in 1..Len(seq) |-> seq[Len(seq) + 1 - i]]

\* C13: within a Score, each Part is transcribed as partToBraille transcribes it
\* alone with the same options: by the same collaborator calls and to the same
\* text, whichever other Parts the Score holds and in whatever order; only the
\* place of the text in the joined output follows the order of the Parts.
C13_PartTextIndependent ==
    (Done /\ OneObject /\ FirstEntered = "scoreToBraille" /\ result.ok)
    => LET parts == PartsOf(call.obj)
           alone == [i \in 1..Len(parts) |-> PartToBraille(parts[i], call.kw)]
           texts == [i \in 1..Len(parts) |-> alone[i].text]
           summaries == [i \in 1..Len(MetadatasOf(call.obj)) |->
                            MetadataToString(MetadatasOf(call.obj)[i])]
       IN /\ \A i \in 1..Len(parts) : alone[i].ok
          /\ Tail(result.log) = Join([i \in 1..Len(parts) |-> alone[i].log], <<>>)
          /\ result.text = Join(summaries \o texts, <<NL>>)
          /\ \A i \in 1..Len(parts) :
                 ScoreToBraille(ScoreOfParts(<<parts[i]>>), call.kw).text = texts[i]
          /\ ScoreToBraille(ScoreOfParts(Reversed(parts)), call.kw).text
                 = Join(Reversed(texts), <<NL>>)

\* a Score of two Parts with different music, headings shown
C13_Witness ==
    /\ Done /\ call.fn = "scoreToBraille" /\ result.ok
    /\ Len(PartsOf(call.obj)) = 2
    /\ PartToBraille(PartsOf(call.obj)[1], call.kw).text
           # PartToBraille(PartsOf(call.obj)[2], call.kw).text
    /\ PartsOf(call.obj)[2].measures # <<>>
    /\ Get(call.kw, "showHeading", TRUE)
    /\ Len(LogOf("transcribe")) = 2

\* the keywords without one key
Without(kw, key) == [k \in DOMAIN kw \ {key} |-> kw[k]]
\* the Segments transcribed in a run, in order
SegmentsOf(log) ==
    LET t == SelectSeq(log, LAMBDA e : e.op = "transcribe")
    IN [i \in 1..Len(t) |-> t[i].seg]
\* the pairs of Segments combined in a run, in order
PairsOf(log) ==
    LET t == SelectSeq(log, LAMBDA e : e.op = "BrailleGrandSegment")
    IN [i \in 1..Len(t) |-> <<t[i].rh, t[i].lh>>]

\* C14: with debug=True the Part transcription returns as many units as with
\* debug left out, for the same Segments in the same order, joined by the same
\* newline; each unit is the Segment's string form instead of its braille (and
\* likewise the keyboard pair, with the string form of each BrailleGrandSegment).
C14_DebugSameUnits ==
    /\ (PartRoute /\ result.ok /\ Get(call.kw, "debug", FALSE))
       => LET plain == PartToBraille(call.obj, Without(call.kw, "debug"))
              segments == SegmentsOf(result.log)
          IN /\ plain.ok
             /\ SegmentsOf(plain.log) = segments
             /\ plain.text = Join([i \in 1..Len(segments) |->
                                       Transcribe(segments[i]).text], <<NL>>)
             /\ result.text = Join([i \in 1..Len(segments) |-> Str(segments[i])],
                                   <<NL>>)
    /\ (Done /\ call.fn = "keyboardPartsToBraille" /\ result.ok
             /\ Get(call.kw, "debug", FALSE))
       => LET plain == KeyboardPartsToBraille(call.obj[1], call.obj[2],
                                              Without(call.kw, "debug"))
              pairs == PairsOf(result.log)
          IN /\ plain.ok
             /\ PairsOf(plain.log) = pairs
             /\ plain.text = Join([i \in 1..Len(pairs) |->
                                       GrandSegment(pairs[i][1], pairs[i][2]).text],
                                  <<NL>>)
             /\ result.text = Join([i \in 1..Len(pairs) |->
                                       GrandStr(pairs[i][1], pairs[i][2])], <<NL>>)

\* a Part of two Segments transcribed with debug=True
C14_Witness ==
    /\ PartRoute /\ result.ok /\ Get(call.kw, "debug", FALSE)
    /\ Len(SegmentsOf(result.log)) = 2
    /\ result.text # PartToBraille(call.obj, Without(call.kw, "debug")).text
    /\ Len(Lines(result.text)) = Len(Lines(PartToBraille(call.obj,
                                         Without(call.kw, "debug")).text))

\* the Segments the Segmenter returned to the one findSegments call of the run
SegmentsFound ==
    FindSegments(LogOf("findSegments")[1].on, LogOf("findSegments")[1].kw).segments

\* C15: partToBraille transcribes every Segment the Segmenter returned exactly
\* once, in the Segmenter's order, and returns their texts joined by a single
\* newline in that order; a Part for which the Segmenter returns no Segment
\* yields the empty text, not an error.
C15_EverySegmentOnceInOrder ==
    (PartRoute /\ Len(LogOf("findSegments")) = 1
               /\ FindSegments(LogOf("findSegments")[1].on,
                               LogOf("findSegments")[1].kw).ok)
    => LET done == SegmentsOf(result.log)
           debug == Get(call.kw, "debug", FALSE)
       IN /\ Len(done) <= Len(SegmentsFound)
          /\ done = SubSeq(SegmentsFound, 1, Len(done))
          /\ result.ok <=> \A i \in 1..Len(SegmentsFound) :
                               Transcribe(SegmentsFound[i]).ok
          /\ result.ok
             => /\ done = SegmentsFound
                /\ result.text
                       = Join([i \in 1..Len(done) |->
                                  IF debug THEN Str(done[i])
                                  ELSE Transcribe(done[i]).text], <<NL>>)
          /\ SegmentsFound = <<>> => (result.ok /\ result.text = <<>>)

\* a Part of two Segments: two texts, one newline between them and none after
C15_Witness ==
    /\ PartRoute /\ result.ok /\ ~Get(call.kw, "debug", FALSE)
    /\ Len(LogOf("findSegments")) = 1
    /\ Len(SegmentsFound) = 2
    /\ result.text = Transcribe(SegmentsFound[1]).text \o <<NL>>
                         \o Transcribe(SegmentsFound[2]).text
    /\ result.text[Len(result.text)] # NL

\* the Segments of the upper and of the lower staff, as the two findSegments
\* calls of a keyboard transcription returned them
UpperSegments ==
    FindSegments(LogOf("findSegments")[1].on, LogOf("findSegments")[1].kw).segments
LowerSegments ==
    FindSegments(LogOf("findSegments")[2].on, LogOf("findSegments")[2].kw).segments

\* both staves of a keyboard pair were segmented, into n Segments each
EqualStaves ==
    /\ Done /\ FirstEntered = "keyboardPartsToBraille"
    /\ Len(LogOf("findSegments")) = 2
    /\ \A i \in 1..2 : FindSegments(LogOf("findSegments")[i].on,
                                    LogOf("findSegments")[i].kw).ok
    /\ Len(UpperSegments) = Len(LowerSegments)

\* C16: when the upper and the lower staff have n Segments each, the keyboard
\* transcription makes exactly n BrailleGrandSegments, the i-th from the i-th
\* upper and the i-th lower Segment, upper first, and returns their texts in
\* that order joined by newline.
C16_OneGrandSegmentPerPair ==
    (EqualStaves /\ result.ok)
    => LET n == Len(UpperSegments)
           debug == Get(call.kw, "debug", FALSE)
       IN /\ Len(LogOf("BrailleGrandSegment")) = n
          /\ \A i \in 1..n :
                 /\ LogOf("BrailleGrandSegment")[i].rh = UpperSegments[i]
                 /\ LogOf("BrailleGrandSegment")[i].lh = LowerSegments[i]
          /\ result.text
                 = Join([i \in 1..n |->
                            IF debug THEN GrandStr(UpperSegments[i], LowerSegments[i])
                            ELSE Transcribe([UpperSegments[i] EXCEPT !.hand = "rh"]).text
                                 \o <<NL>>
                                 \o Transcribe([LowerSegments[i] EXCEPT !.hand = "lh"]).text],
                        <<NL>>)

\* two staves of two Segments each, with different music
C16_Witness ==
    /\ EqualStaves /\ result.ok /\ ~Get(call.kw, "debug", FALSE)
    /\ Len(UpperSegments) = 2
    /\ UpperSegments # LowerSegments
    /\ Len(LogOf("BrailleGrandSegment")) = 2

\* the positions of the log with a call of the kind
Positions(op) == {i \in 1..Len(result.log) : result.log[i].op = op}

\* C17: in the keyboard-pair transcription both staves have been segmented (and,
\* unless inPlace, both renotated before that) before the first
\* BrailleGrandSegment is formed; no pair is built from a staff partly segmented.
C17_SegmentedBeforePaired ==
    (Done /\ FirstEntered = "keyboardPartsToBraille")
    => /\ \A p \in Positions("BrailleGrandSegment") :
              /\ Cardinality({i \in Positions("findSegments") : i < p}) = 2
              /\ \A i \in Positions("findSegments") \cup Positions("makeNotation") :
                     i < p
              /\ \A i \in Positions("findSegments") :
                     FindSegments(result.log[i].on, result.log[i].kw).ok
              /\ result.log[p].rh \in
                     {UpperSegments[k] : k \in 1..Len(UpperSegments)}
              /\ result.log[p].lh \in
                     {LowerSegments[k] : k \in 1..Len(LowerSegments)}
       /\ \A s \in Positions("findSegments") :
              /\ \A m \in Positions("makeNotation") : m < s
              /\ ~TranslateArgs(result.log[1].kw).inPlace
                 => Cardinality(Positions("makeNotation")) = 2

\* both staves renotated, then both segmented, then two pairs formed
C17_Witness ==
    /\ Done /\ FirstEntered = "keyboardPartsToBraille" /\ result.ok
    /\ Cardinality(Positions("makeNotation")) = 2
    /\ Cardinality(Positions("BrailleGrandSegment")) = 2
    /\ result.log[2].op = "makeNotation" /\ result.log[3].op = "makeNotation"
    /\ result.log[4].op = "findSegments" /\ result.log[5].op = "findSegments"
    /\ result.log[6].op = "BrailleGrandSegment"

\* the work ids of the Metadata whose value is not None
KeptIds == SelectSeq(call.obj.workIds, LAMBDA w : w.value # "None")
\* the lines of the summary; the empty summary has none
SummaryLines == IF result.text = <<>> THEN <<>> ELSE Lines(result.text)
\* the orders in which a mapping of n work ids can be iterated
IterationOrders(n) == {f \in [1..n -> 1..n] : \A i, j \in 1..n : f[i] = f[j] => i = j}

\* C18: metadataToString emits one line per work id whose value is not None and
\* none for a None value, each line '<Title Case key>: <value>', the lines in
\* lexicographic order: the result is the same for every iteration order of the
\* work id mapping.
C18_OneSortedLinePerWorkId ==
    (Done /\ call.fn = "metadataToString")
    => /\ result.ok
       /\ Len(SummaryLines) = Len(KeptIds)
       /\ \A k \in 1..Len(KeptIds) :
              Cardinality({i \in 1..Len(SummaryLines) :
                              SummaryLines[i] = <<TitleCase(KeptIds[k].key), ":",
                                                  KeptIds[k].value>>}) = 1
       /\ \A i, j \in 1..Len(SummaryLines) :
              i < j => LineRank(SummaryLines[i]) < LineRank(SummaryLines[j])
       /\ \A f \in IterationOrders(Len(call.obj.workIds)) :
              MetadataToString(MetadataOf([i \in 1..Len(call.obj.workIds) |->
                                              call.obj.workIds[f[i]]]))
                  = result.text

\* title first in the mapping and last in the summary, and a None value left out
C18_Witness ==
    /\ Done /\ call.fn = "metadataToString"
    /\ Len(call.obj.workIds) = 3 /\ Len(KeptIds) = 2
    /\ call.obj.workIds[1].key = "title"
    /\ call.obj.workIds[2].value = "None"
    /\ result.text = <<"Movement Name", ":", "Sonata", NL, "Title", ":", "Sonata">>

\* an Opus handed to opusToBraille, directly or by the dispatcher
OpusRoute == Done /\ OneObject /\ FirstEntered = "opusToBraille"

\* C19: opusToBraille returns the transcriptions of the Scores of the Opus, one
\* per Score and in the Opus's order, separated by exactly one blank line (two
\* newlines); elements that are not Scores contribute nothing, and an Opus with
\* no Score yields the empty text.
C19_ScoresJoinedByBlankLine ==
    (OpusRoute /\ Failing(ScoresOf(call.obj), ScoreToBraille) = {})
    => LET scores == SelectSeq(call.obj.elements, LAMBDA e : e.cls = "Score")
           texts == [i \in 1..Len(scores) |-> ScoreToBraille(scores[i], call.kw).text]
       IN /\ result.ok
          /\ Entries("scoreToBraille") = Len(scores)
          /\ Tail(result.log)
                 = Join([i \in 1..Len(scores) |->
                            ScoreToBraille(scores[i], call.kw).log], <<>>)
          /\ result.text = Join(texts, <<NL, NL>>)
          /\ Len(scores) = 2 => result.text = texts[1] \o <<NL, NL>> \o texts[2]
          /\ scores = <<>> => result.text = <<>>

\* an Opus of two Scores, each with text: a blank line between the two texts
C19_Witness ==
    /\ OpusRoute /\ call.fn = "opusToBraille" /\ result.ok
    /\ Len(ScoresOf(call.obj)) = 2
    /\ ScoreToBraille(ScoresOf(call.obj)[1], call.kw).text # <<>>
    /\ ScoreToBraille(ScoresOf(call.obj)[2], call.kw).text # <<>>
    /\ \E i \in 1..Len(result.text) - 1 : result.text[i] = NL /\ result.text[i + 1] = NL

\* a single object that is no Stream, handed to objectToBraille with no keywords
SingleObjectNoOptions ==
    /\ Done /\ call.fn = "objectToBraille" /\ ~IsStream(call.obj)
    /\ DOMAIN call.kw = {}

\* the symbols of the object itself
OwnSymbols(obj) ==
    IF obj.cls = "Note" THEN <<OctaveGlyph(obj.octave), "note">>
    ELSE <<"dyn">> \o [i \in 1..obj.letters |-> "f"]

\* C20: a single non-Stream object transcribed with no options is wrapped in a
\* new Measure holding exactly that one event and yields only the object's own
\* symbols: no heading line, no measure number and nothing after them (for
\* Dynamic 'fff': the dynamics introducer and exactly three forte glyphs).
C20_SingleObjectOwnSymbols ==
    (SingleObjectNoOptions /\ call.obj.cls \in {"Note", "Dynamic"})
    => /\ result.ok
       /\ Len(LogOf("findSegments")) = 1
       /\ Len(LogOf("findSegments")[1].on.measures) = 1
       /\ LogOf("findSegments")[1].on.measures[1].events = <<call.obj>>
       /\ result.text = OwnSymbols(call.obj)
       /\ \A i \in 1..Len(result.text) : result.text[i] \notin {"head", "num", "sp", NL}
       /\ (call.obj.cls = "Dynamic" /\ call.obj.letters = 3)
          => result.text = <<"dyn", "f", "f", "f">>

\* Dynamic('fff') on its own
C20_Witness ==
    /\ SingleObjectNoOptions /\ call.obj.cls = "Dynamic" /\ call.obj.letters = 3
    /\ result.ok /\ Len(result.text) = 4
    /\ Len(LogOf("transcribe")) = 1

\* bytes.decode('utf-8'): one character per leading byte
Decoded(data) ==
    LET lead == SelectSeq(data, LAMBDA b : b.byte = 1)
    IN [i \in 1..Len(lead) |-> lead[i].of]

\* C21: the braille template returns a pair (data, contentType) with content
\* type 'text/html; charset=utf-8' and data the UTF-8 encoding of
\* '<html><body><pre>' + objectToBraille(stream) + '</pre></body></html>'; when
\* objectToBraille fails, the failure propagates and no pair is returned.
C21_TemplatePairOrFailure ==
    (Done /\ call.fn = "braille")
    => LET r == ObjectToBraille(call.obj, <<>>)
           page == <<"<html><body><pre>">> \o r.text \o <<"</pre></body></html>">>
       IN IF r.ok
          THEN /\ result.ok
               /\ result.contentType = "text/html; charset=utf-8"
               /\ result.data = Utf8(page)
               /\ Decoded(result.data) = page
               /\ Len(result.data)
                      = Len(page) + (BrailleCellBytes - 1)
                            * Cardinality({i \in 1..Len(page) : page[i] \in BrailleCells})
          ELSE /\ ~result.ok
               /\ result.exc = r.exc
               /\ DOMAIN result = {"ok", "text", "exc", "log"}

\* a Part whose renotation fails: the template raises and returns no page
C21_Witness ==
    /\ Done /\ call.fn = "braille" /\ IsPart(call.obj)
    /\ ~result.ok /\ result.exc = "StreamException"
    /\ "data" \notin DOMAIN result

\* a PartitionedClass or PartitioinedModule was constructed, _sort included
Constructed ==
    /\ Done /\ call.fn \in {"PartitionedClass", "PartitioinedModule"}
    /\ result.ok

\* C22: after construction of a PartitioinedModule or PartitionedClass, _sort
\* included, names and _data have the same length and are index-aligned
\* (_data[i].name = names[i]); _sort is a permutation: no entry is lost and none
\* is duplicated, so getElement returns the entry of the name asked for.
C22_NamesAndDataAligned ==
    Constructed
    => LET n == Len(call.names)
       IN /\ Len(result.names) = n /\ Len(result.data) = n
          /\ Len(result.namesMroIndex) = n
          /\ \A i \in 1..n :
                 /\ result.data[i].name = result.names[i]
                 /\ result.namesMroIndex[i][1] = result.names[i]
                 /\ result.names[i] = call.names[result.data[i].origin]
                 /\ GetElement(result, result.names[i]) = result.data[i]
          /\ {result.data[i].origin : i \in 1..n} = 1..n

\* a class whose _DOC_ORDER moves its last name forward
C22_Witness ==
    /\ Constructed /\ call.fn = "PartitionedClass"
    /\ Len(call.names) = 3 /\ Len(call.docOrder) = 1
    /\ call.names[1] = "parseData"
    /\ call.docOrder[1] = call.names[3]
    /\ result.names # call.names

\* the names of a list that are not in another, in the order they have
Except(list, other) == SelectSeq(list, LAMBDA n : ~Has(other, n))

\* the order documented for PartitionedClass._sort: '__init__' when the class
\* has it, the names of _DOC_ORDER as declared, the remaining names as they were
DocumentedOrder(names, docOrder) ==
    LET first == IF Has(names, "__init__") THEN <<"__init__">> ELSE <<>>
        declared == Except(docOrder, first)
    IN first \o declared \o Except(Except(names, first), declared)

\* C23: after PartitionedClass._sort, '__init__' comes first when the class has
\* it, then every name of _DOC_ORDER in the declared order, then the remaining
\* names in their original relative order, for every _DOC_ORDER whose names all
\* exist in the class.
C23_InitThenDocOrderThenRest ==
    (Done /\ call.fn = "PartitionedClass"
          /\ (\A i \in 1..Len(call.docOrder) : Has(call.names, call.docOrder[i]))
          /\ (\A i, j \in 1..Len(call.docOrder) :
                  call.docOrder[i] = call.docOrder[j] => i = j))
    => /\ result.ok
       /\ result.names = DocumentedOrder(call.names, call.docOrder)

\* the steps of main in which an rst file is written
RstWritten == SelectSeq(result.steps, LAMBDA step : step \in {"rst:module", "rst:contents"})

\* C30: Documentation.main(format) fails exactly when format is not one of the
\* declared FORMATS, and then before any rst file is written; for each declared
\* format it writes the module references, then the contents file, and reaches
\* the build step with a defined output directory.
C30_MainFailsOnlyOnBadFormat ==
    (Done /\ call.fn = "Documentation.main")
    => /\ ~result.ok <=> call.format \notin FORMATS
       /\ call.format \notin FORMATS => RstWritten = <<>>
       /\ call.format \in FORMATS
          => /\ RstWritten = [i \in 1..call.modules |-> "rst:module"]
                                 \o <<"rst:contents">>
             /\ result.dirOut # "undefined"

\* the transcriber the documented order of tests selects for a Stream
SelectedTranscriber(stream) ==
    IF stream.cls \in {"Part", "PartStaff", "TinyNotationStream"} THEN "partToBraille"
    ELSE IF stream.cls = "Measure" THEN "measureToBraille"
    ELSE IF Len(SelectSeq(Elements(stream), LAMBDA e : e.cls = "PartStaff")) = 2
    THEN "keyboardPartsToBraille"
    ELSE IF stream.cls = "Score" THEN "scoreToBraille"
    ELSE IF stream.cls = "Opus" THEN "opusToBraille"
    ELSE "none"

\* what the selected transcriber does with the Stream
SelectedOutcome(stream, kw) ==
    CASE SelectedTranscriber(stream) = "partToBraille" -> PartToBraille(stream, kw)
      [] SelectedTranscriber(stream) = "measureToBraille" -> MeasureToBraille(stream, kw)
      [] SelectedTranscriber(stream) = "keyboardPartsToBraille"
             -> KeyboardPartsToBraille(PartStaffsOf(stream)[1], PartStaffsOf(stream)[2], kw)
      [] SelectedTranscriber(stream) = "scoreToBraille" -> ScoreToBraille(stream, kw)
      [] SelectedTranscriber(stream) = "opusToBraille" -> OpusToBraille(stream, kw)

\* C24: streamToBraille invokes exactly one transcriber, the first match in the
\* order Part or TinyNotationStream, Measure, Stream directly containing exactly
\* two PartStaff, Score, Opus (a Stream that matches none raises, see C1): a
\* Score or Opus with exactly two PartStaff is a keyboard pair, a Part or Measure
\* never is, whatever it contains.
C24_FirstMatchDispatch ==
    (Done /\ ViaDispatcher /\ IsStream(call.obj))
    => IF SelectedTranscriber(call.obj) = "none" THEN LogOf("enter") = <<>>
       ELSE /\ FirstEntered = SelectedTranscriber(call.obj)
            /\ result = SelectedOutcome(call.obj, call.kw)
            /\ (call.obj.cls \in {"Score", "Opus"} /\ Len(PartStaffsOf(call.obj)) = 2)
               => Entries("keyboardPartsToBraille") = 1
                  /\ Len(LogOf("enter")) = 1
            /\ (IsPart(call.obj) \/ IsMeasure(call.obj))
               => Entries("keyboardPartsToBraille") = 0

\* a Part that directly contains two PartStaff goes to partToBraille
C24_Witness ==
    /\ Done /\ call.fn = "streamToBraille" /\ IsPart(call.obj)
    /\ Len(PartStaffsOf(call.obj)) = 2
    /\ FirstEntered = "partToBraille"
    /\ Entries("keyboardPartsToBraille") = 0

\* C25: for every Score of an Opus and every option set, the text opusToBraille
\* produces for the Score as a member of the Opus is the text the dispatcher
\* (streamToBraille) produces for that Score handed over alone with the same
\* options.
C25_MemberScoreAsAlone ==
    (OpusRoute /\ result.ok)
    => LET scores == ScoresOf(call.obj)
           alone == [i \in 1..Len(scores) |-> StreamToBraille(scores[i], call.kw)]
       IN /\ \A i \in 1..Len(scores) : alone[i].ok
          /\ result.text = Join([i \in 1..Len(scores) |-> alone[i].text], <<NL, NL>>)

RECURSIVE Flattened(_)
\* the sequences of a sequence, one after the other
Flattened(seqs) == IF seqs = <<>> THEN <<>> ELSE Head(seqs) \o Flattened(Tail(seqs))

\* the Measures, Parts and PartStaffs of the call that can be renotated, in the
\* order the transcribers meet them
RenotationUnits ==
    CASE FirstEntered = "partToBraille" -> <<call.obj>>
      [] FirstEntered = "measureToBraille" ->
             IF IsStream(call.obj) THEN <<call.obj>> ELSE <<>>
      [] FirstEntered = "keyboardPartsToBraille" ->
             IF OneObject THEN PartStaffsOf(call.obj) ELSE call.obj
      [] FirstEntered = "scoreToBraille" -> PartsOf(call.obj)
      [] FirstEntered = "opusToBraille" ->
             Flattened([i \in 1..Len(ScoresOf(call.obj)) |->
                           PartsOf(ScoresOf(call.obj)[i])])
      [] OTHER -> <<>>

\* C26: in one top-level call makeNotation is requested at most once for each
\* Measure, Part or PartStaff, on the caller's object and never on a copy; on
\* the Measure route it is requested on the Measure only, and the Part that
\* wraps the Measure is transcribed with inPlace forced to True.
C26_RenotatedAtMostOnce ==
    (Done /\ call.fn \in {"objectToBraille", "streamToBraille", "partToBraille",
                          "measureToBraille", "keyboardPartsToBraille",
                          "scoreToBraille", "opusToBraille"})
    => LET made == LogOf("makeNotation")
       IN /\ Len(made) <= Len(RenotationUnits)
          /\ \A i \in 1..Len(made) :
                 /\ made[i].on = RenotationUnits[i]
                 /\ ~made[i].on.copy
          /\ FirstEntered = "measureToBraille"
             => /\ \A i \in 1..Len(made) : IsMeasure(made[i].on)
                /\ \A i \in 1..Len(LogOf("enter")) :
                       LogOf("enter")[i].fn = "partToBraille"
                       => TranslateArgs(LogOf("enter")[i].kw).inPlace

\* a Measure handed over with inPlace left out: renotated once, its Part not
C26_Witness ==
    /\ Done /\ call.fn = "objectToBraille" /\ IsMeasure(call.obj)
    /\ "inPlace" \notin DOMAIN call.kw /\ result.ok
    /\ Len(LogOf("makeNotation")) = 1
    /\ Entries("partToBraille") = 1
    /\ Len(LogOf("findSegments")) = 1

\* the entries of a log that carry the options a transcriber was handed
WithOptions(log) == SelectSeq(log, LAMBDA e : e.op \in {"enter", "findSegments"})

\* C27: the options forced on the single-object and Measure routes are seen by
\* the transcribers below the forcing one only: the keywords the caller holds
\* are after every call the ones it built, and on every other route, so for
\* every Part of a Score and every Score of an Opus, each transcriber and each
\* segmentation is handed exactly the caller's options.
C27_ForcedOptionsStayLocal ==
    phase = "held"
    => \A i \in 1..Len(result) :
           LET r == result[i]
               seen == WithOptions(r.out.log)
               forced == CalleeKeywords(r.fn, call.obj, r.kw)
               measureRoute == r.fn = "measureToBraille" \/ IsMeasure(call.obj)
                               \/ ~IsStream(call.obj)
           IN /\ call.kw = r.kw
              /\ \A k \in 1..Len(seen) :
                     IF measureRoute
                     THEN /\ seen[k].op = "enter" /\ seen[k].fn = "measureToBraille"
                             => seen[k].kw = (IF IsStream(call.obj) THEN r.kw
                                              ELSE Set(r.kw, "inPlace", TRUE))
                          /\ ~(seen[k].op = "enter" /\ seen[k].fn = "measureToBraille")
                             => seen[k].kw = forced
                     ELSE seen[k].kw = r.kw

\* a Score of two Parts transcribed twice with inPlace left out: both Parts
\* entered each time, the caller's keywords still without inPlace
C27_Witness ==
    /\ phase = "held" /\ Len(result) = 2 /\ IsScore(call.obj)
    /\ "inPlace" \notin DOMAIN call.kw
    /\ \A i \in 1..2 :
           /\ result[i].out.ok
           /\ Len(SelectSeq(result[i].out.log,
                            LAMBDA e : e.op = "enter" /\ e.fn = "partToBraille")) = 2

\* start is over: it returned, raised, or left through exit
Terminated == phase \in {"returned", "raised", "exited"}
\* the step is among the steps start has done
Ran(step) == \E i \in 1..Len(result.steps) : result.steps[i] = step
\* the last n steps start has done
LastSteps(n) == SubSeq(result.steps, Len(result.steps) - n + 1, Len(result.steps))

\* C28: once the IO loop was started, start does not end before it has run
\* cleanup_kernels and then remove_server_info_file as its last two steps,
\* whether the loop returned, was interrupted by KeyboardInterrupt or raised
\* another exception (which then reaches the caller); with a subapp set, the
\* call of subapp.start is all that start does.
C28_CleanupAfterLoop ==
    /\ (Terminated /\ Ran("ioloop.start"))
       => /\ Len(result.steps) >= 2
          /\ LastSteps(2) = <<"cleanup_kernels", "remove_server_info_file">>
          /\ result.kernels = 0 /\ ~result.serverInfoFile
          /\ phase = (IF result.pending = "none" THEN "returned" ELSE "raised")
    /\ (call.subapp /\ phase # "configured")
       => /\ phase = "returned"
          /\ result = [NotStarted EXCEPT !.steps = <<"subapp.start">>]

\* the loop raised an exception other than KeyboardInterrupt while kernels were
\* running: both cleanup steps ran and the exception went on to the caller
C28_Witness ==
    /\ phase = "raised" /\ result.pending = "Exception"
    /\ Ran("ioloop.start") /\ Ran("cleanup_kernels")
    /\ Ran("remove_server_info_file")
    /\ result.kernels = 0 /\ ~result.serverInfoFile

\* C29: whenever start is over and write_server_info_file has run, so have
\* remove_server_info_file and cleanup_kernels, also when file_to_run does not
\* exist and the app exits with status 1.
C29_InfoFileAlwaysRemoved ==
    (Terminated /\ Ran("write_server_info_file"))
    => /\ Ran("cleanup_kernels")
       /\ Ran("remove_server_info_file")
       /\ ~result.serverInfoFile

====
